---- MODULE Spec2Model ----
(***************************************************************************)
(* Model of the chunking / batching / reassembly core of scan2epub:       *)
(*   - chunk_text            (src/src/scan2epub/epub/cleaner.py)          *)
(*   - clean_chunks          (src/src/scan2epub/epub/cleaner.py)          *)
(*   - _batch_paragraphs,                                                 *)
(*     _translate_paragraphs,                                             *)
(*     translate_epub        (src/src/scan2epub/epub/translator.py)       *)
(*   - _batch_segments       (src/src/scan2epub/translate/translator.py)  *)
(* and of the stages around it:                                           *)
(*   - run_ocr_to_epub, run_cleanup,                                      *)
(*     run_full_pipeline     (src/src/scan2epub/pipeline.py)              *)
(*   - _get_analyze_result   (src/src/scan2epub/ocr/azure_cu.py)          *)
(*   - clean_epub            (src/src/scan2epub/epub/cleaner.py)          *)
(*   - the clean command     (src/src/scan2epub/cli.py)                   *)
(* A text is a sequence of one-character strings, so that len(), slicing, *)
(* str.split, str.strip and re.split are computed as Python computes them.*)
(***************************************************************************)
EXTENDS Integers, Sequences, FiniteSets, TLC

VARIABLES
    \* ---- chunk_text(text, max_tokens_per_chunk) ----
    text,           \* the input text
    maxTokens,      \* max_tokens_per_chunk
    chunks,         \* the returned list of chunks
    pcChunk,        \* "idle" | "input" | "done"
    \* ---- _batch_paragraphs(paragraphs) / _batch_segments(segments) ----
    paragraphs,     \* the input list of paragraphs (segments)
    maxParas,       \* max_paragraphs_per_batch (MAX_DOCS_PER_REQUEST)
    maxBatchChars,  \* max_chars_per_batch (MAX_CHARS_PER_REQUEST)
    batches,        \* the list returned by _batch_paragraphs
    segBatches,     \* the batches yielded by _batch_segments
    pcBatch,        \* "idle" | "input" | "done"
    \* ---- clean_chunks(chunks, client, ..., debug_mode, debug_dir, reporter) ----
    ccChunks,       \* the input list of chunks
    reporter,       \* "none" (reporter is None) | "reliable" (its callbacks
                    \* never raise) | "faulty" (a callback may raise)
    debugOn,        \* debug_mode and debug_dir
    cleaned,        \* cleaned_chunks
    ci,             \* i, the 1-based index of the chunk being processed
    attempt,        \* attempt, 0-based
    totalRetries,   \* total_retries
    llmCalls,       \* per chunk, what each attempt's service call did
    sleeps,         \* the time.sleep(retry_delay) calls made for each chunk
    artifacts,      \* the debug files written: <<chunk, attempt, kind>>
    pcClean,        \* "idle" | "start" | "chunk" | "attempt" | "summary"
                    \*        | "returned" | "raised"
    \* ---- EPUBTranslator.translate_epub(input_epub, output_epub, to_lang) ----
    docItems,       \* original_data['content_items'] of the input EPUB
    translator,     \* the behaviour of the injected self.translator
    allowNoop,      \* self.allow_noop
    minRatio,       \* self.min_changed_ratio, as <<numerator, denominator>>
    statusFile,     \* self.status_file is set
    cfgMaxParas,    \* runtime_cfg.max_paragraphs_per_batch
    itemIdx,        \* position of the for-loop over content_items
    itemParas,      \* paragraphs of the item being translated
    pendingBatches, \* batches of the item not yet sent to the provider
    translated,     \* _translate_paragraphs: translated
    totalItems,     \* total_items
    totalParagraphs,    \* total_paragraphs
    changedParagraphs,  \* changed_paragraphs
    translatedContent,  \* translated_content
    providerCalls,  \* number of translator.translate_text calls made
    statusLog,      \* the "stage" fields of the lines of the status file
    outputBefore,   \* what was at output_epub when translate_epub was called
    outputEpub,     \* what is at output_epub now
    result,         \* "none" | "ok" | "TranslationError" | "EPUBError"
                    \*        | "ProviderError"
    pcTrans,        \* "idle" | "start" | "items" | "batches"
                    \*        | "returned" | "raised"
    \* ---- run_full_pipeline(...) / the clean command of main() ----
    command,        \* "idle" | "convert" (run_full_pipeline) | "clean"
    inputPath,      \* input_pdf, as <<leading part, rest>>
    debug,          \* debug
    debugDir,       \* debug_dir is not None
    cleanupOnFailure,   \* cfg.processing.cleanup_on_failure
    saveInterim,    \* save_interim
    statusPath,     \* status_file is not None
    translateTo,    \* a target language was requested (args.translate_to)
    storageHandler, \* storage_handler is not None
    uploadedBlobs,  \* storage_handler.uploaded_blobs
    storedBlobs,    \* the blobs this run has put into the container
    deleteAttempts, \* the blobs delete_blob has been called for
    pdfUrl,         \* pdf_url: <<"none">>, the input path or the SAS URL
    submitted,      \* _send_analyze_request has returned an operation id
    pollAttempt,    \* number of polls made by _get_analyze_result
    ocrStatus,      \* "none" | "Succeeded" | "Failed" | "Unexpected"
                    \*        | "NetworkError" | "Timeout"
    interimEpub,    \* "absent" | "written" | "moved" | "removed"
    backupEpub,     \* "absent" | "exists": the ".backup" copy clean_epub makes
    runLog,         \* the "stage"/"event" names of the lines of status_file
    epubItems,      \* original_data['content_items'] of clean_epub
    epubIdx,        \* position of clean_epub's item loop
    cleanedContent, \* cleaned_content (file names)
    cleanupCalls,   \* file names clean_text_with_llm was called for
    tempDir,        \* "none" | "exists" | "removed": extraction directory
    interimDir,     \* "none" | "exists" | "removed": interim JSON directory
    finalBefore,    \* what was at output_epub before the run
    finalEpub,      \* "absent" | "old" | "cleaned" | "translated"
    translateEntered,   \* run_translate has been called
    pendingError,   \* the exception in flight, "none" if there is none
    runResult,      \* "none" | "ok" | the exception the caller sees
    pcRun,          \* control point of the run
    \* --- AzureTranslator.preflight_check ---
    azRegion,       \* self.region is set
    pingToLang,     \* to_lang handed to preflight_check ("" for none)
    pingResponse,   \* what session.post gave: <<status, body, json error class>>
    httpPosts,      \* the requests handed to session.post, in order
    pingOutcome,    \* "none" | "returned" | the exception raised
    pcPing,         \* control point of preflight_check
    \* --- PreflightChecker and the command's preflight block in main ---
    pfCommand,      \* "ocr" / "clean" / "convert" / "translate"
    pfLocal,        \* the input does not start with http:// or https://
    pfWants,        \* wants_translation
    pfStatus,       \* a status file is handed to PreflightChecker
    pfSkip,         \* skip_preflight
    pfRemaining,    \* the checks the orchestrator still has to call
    pfChecked,      \* <<service, outcome>> of the checks called, in order
    pfEvents,       \* the "stage" fields written to the status file
    pfError,        \* the exception run_for_* raised
    cliReturn,      \* what main returned: "0" / "1"
    stageStarted,   \* main went on to call the command's stage
    pcPf,           \* control point
    \* --- run_translate ---
    rtToLang,       \* to_lang
    rtStatus,       \* a status file is given
    rtResponse,     \* what the translator answered to the preflight request
    rtPingCalls,    \* calls of AzureTranslator.preflight_check
    rtEpubReads,    \* times the input EPUB was opened
    rtEpubWrites,   \* times an output EPUB was written
    rtRequests,     \* translation requests issued
    rtResult,       \* "ok" or the exception run_translate raised
    pcRt,           \* control point
    \* --- EPUBOCRCleaner: construction and clean_text_with_llm for one chunk ---
    ocInjected,     \* azure_openai_cfg is handed in (not None)
    ocMissing,      \* the settings that are missing
    ocMaxRetries,   \* runtime_cfg.max_retries
    ocResult,       \* "constructed" or the exception __init__ raised
    ocAttempts,     \* service calls made for the chunk
    ocEntry,        \* the chunk's entry: "cleaned" / "original"
    ocOutput,       \* the text of the output: "cleaned" / "uncleaned"
    pcOc,           \* control point
    \* --- a stage run twice on the same service answers: with a working status file and with one whose writes may fail ---
    lgWriter,       \* whose _status helper writes: "pipeline" / "reporter" / "translator" / "preflight"
    lgStep,         \* events handed to the helper so far
    refLog,         \* the status file of the run whose writes succeed
    obsLog,         \* the status file of the run whose writes may fail
    refResult,      \* result of the run whose writes succeed
    obsResult,      \* result of the run whose writes may fail
    obsSteps,       \* steps the run whose writes may fail has taken
    pcLog,          \* control point
    \* --- reconstruct_html ---
    rcText,         \* cleaned_text
    rcFirst,        \* the elements of reconstruct_html(cleaned_text): <<tag, text>>
    rcSecond,       \* the elements of reconstruct_html of the joined paragraphs
    rcBuilt,        \* the elements of the chapter EPUBBuilder.add_chapter builds
    pcBuilder,      \* control point of the builder
    pcRc,           \* control point
    \* --- AzureTranslator.translate_text ---
    ttSegments,     \* segments
    ttToLang,       \* to_lang
    ttLimitDocs,    \* MAX_DOCS_PER_REQUEST of the translator
    ttMaxRetries,   \* self.max_retries
    ttBatches,      \* the batches _batch_segments yields
    ttBatchIdx,     \* batch_idx
    ttAttempt,      \* attempt
    ttTranslated,   \* translated
    ttPosts,        \* session.post calls made for each batch
    ttSleeps,       \* the time.sleep(backoff) calls made for each batch
    ttFailed,       \* the batches that failed on their last attempt
    ttResult,       \* what translate_text returned or raised
    pcTt,           \* control point
    \* --- AzureStorageHandler ---
    shClock,        \* datetime.utcnow(), in whole seconds
    shStore,        \* the container: for each blob name the upload it holds
    shTracked,      \* uploaded_blobs of each handler
    shLive,         \* per handler, the names it uploaded and has not deleted since
    shMine,         \* per handler, the names its uploads generated
    shUploads,      \* per handler, the upload_pdf calls made
    shReading,      \* per handler, the uploads its OCR is still reading
    shClobbered,    \* an upload replaced a blob of the other handler
    shLast,         \* the last call and what it did
    \* --- EPUBTranslator._split_paragraphs ---
    spText,         \* text
    spParas,        \* what _split_paragraphs returned
    spFallbackReached, \* the line-grouping fallback was reached
    spFallback,     \* what the fallback returned
    pcSp            \* control point

chunkVars == <<text, maxTokens, chunks, pcChunk>>
batchVars == <<paragraphs, maxParas, maxBatchChars, batches, segBatches, pcBatch>>

cleanVars == <<ccChunks, reporter, debugOn, cleaned, ci, attempt,
               totalRetries, llmCalls, sleeps, artifacts, pcClean>>

transVars == <<docItems, translator, allowNoop, minRatio, statusFile, cfgMaxParas, itemIdx,
               itemParas, pendingBatches, translated, totalItems,
               totalParagraphs, changedParagraphs, translatedContent,
               providerCalls, statusLog, outputBefore, outputEpub, result,
               pcTrans>>

runConfig == <<command, inputPath, debug, debugDir, cleanupOnFailure,
               saveInterim, statusPath, translateTo, finalBefore>>
ocrVars == <<storageHandler, uploadedBlobs, storedBlobs, deleteAttempts, pdfUrl,
             submitted, pollAttempt, ocrStatus>>
epubVars == <<epubItems, epubIdx, cleanedContent, cleanupCalls, tempDir,
              interimDir, finalEpub>>
runVars == <<runConfig, ocrVars, epubVars, interimEpub, backupEpub, runLog,
             translateEntered, pendingError, runResult, pcRun>>

pingVars == <<azRegion, pingToLang, pingResponse, httpPosts, pingOutcome, pcPing>>

\* the components at the service boundary
pfVars == <<pfCommand, pfLocal, pfWants, pfStatus, pfSkip, pfRemaining, pfChecked, pfEvents, pfError, cliReturn, stageStarted, pcPf>>

rtVars == <<rtToLang, rtStatus, rtResponse, rtPingCalls, rtEpubReads, rtEpubWrites, rtRequests, rtResult, pcRt>>

ocVars == <<ocInjected, ocMissing, ocMaxRetries, ocResult, ocAttempts, ocEntry, ocOutput, pcOc>>

logVars == <<lgWriter, lgStep, refLog, obsLog, refResult, obsResult, obsSteps, pcLog>>

rcVars == <<rcText, rcFirst, rcSecond, rcBuilt, pcBuilder, pcRc>>

ttVars == <<ttSegments, ttToLang, ttLimitDocs, ttMaxRetries, ttBatches, ttBatchIdx, ttAttempt, ttTranslated, ttPosts, ttSleeps, ttFailed, ttResult, pcTt>>

shVars == <<shClock, shStore, shTracked, shLive, shMine, shUploads, shReading, shClobbered, shLast>>

spVars == <<spText, spParas, spFallbackReached, spFallback, pcSp>>

boundaryVars == <<pingVars, pfVars, rtVars, ocVars, logVars, rcVars, ttVars, shVars, spVars>>

vars == <<chunkVars, batchVars, cleanVars, transVars, runVars, boundaryVars>>

\* ----------------------------------- a component that is not being exercised
ChunkIdle ==
    /\ text = <<>>
    /\ maxTokens = 0
    /\ chunks = <<>>
    /\ pcChunk = "idle"

BatchIdle ==
    /\ paragraphs = <<>>
    /\ maxParas = 0
    /\ maxBatchChars = 0
    /\ batches = <<>>
    /\ segBatches = <<>>
    /\ pcBatch = "idle"

CleanIdle ==
    /\ ccChunks = <<>>
    /\ reporter = "none"
    /\ debugOn = FALSE
    /\ cleaned = <<>>
    /\ ci = 0
    /\ attempt = 0
    /\ totalRetries = 0
    /\ llmCalls = <<>>
    /\ sleeps = <<>>
    /\ artifacts = {}
    /\ pcClean = "idle"

TransIdle ==
    /\ docItems = <<>>
    /\ translator = "echo"
    /\ allowNoop = FALSE
    /\ minRatio = <<0, 1>>
    /\ statusFile = FALSE
    /\ cfgMaxParas = 1
    /\ itemIdx = 0
    /\ itemParas = <<>>
    /\ pendingBatches = <<>>
    /\ translated = <<>>
    /\ totalItems = 0
    /\ totalParagraphs = 0
    /\ changedParagraphs = 0
    /\ translatedContent = <<>>
    /\ providerCalls = 0
    /\ statusLog = <<>>
    /\ outputBefore = "absent"
    /\ outputEpub = "absent"
    /\ result = "none"
    /\ pcTrans = "idle"

RunIdle ==
    /\ command = "idle"
    /\ inputPath = <<"", "">>
    /\ debug = FALSE
    /\ debugDir = FALSE
    /\ cleanupOnFailure = FALSE
    /\ saveInterim = FALSE
    /\ statusPath = FALSE
    /\ translateTo = FALSE
    /\ storageHandler = FALSE
    /\ uploadedBlobs = {}
    /\ storedBlobs = {}
    /\ deleteAttempts = {}
    /\ pdfUrl = <<"none">>
    /\ submitted = FALSE
    /\ pollAttempt = 0
    /\ ocrStatus = "none"
    /\ interimEpub = "absent"
    /\ backupEpub = "absent"
    /\ runLog = <<>>
    /\ epubItems = <<>>
    /\ epubIdx = 0
    /\ cleanedContent = <<>>
    /\ cleanupCalls = <<>>
    /\ tempDir = "none"
    /\ interimDir = "none"
    /\ finalBefore = "absent"
    /\ finalEpub = "absent"
    /\ translateEntered = FALSE
    /\ pendingError = "none"
    /\ runResult = "none"
    /\ pcRun = "idle"

PingIdle ==
    /\ azRegion = FALSE
    /\ pingToLang = ""
    /\ pingResponse = <<>>
    /\ httpPosts = <<>>
    /\ pingOutcome = "none"
    /\ pcPing = "idle"

PfIdle ==
    /\ pfCommand = "idle"
    /\ pfLocal = FALSE
    /\ pfWants = FALSE
    /\ pfStatus = FALSE
    /\ pfSkip = FALSE
    /\ pfRemaining = <<>>
    /\ pfChecked = <<>>
    /\ pfEvents = <<>>
    /\ pfError = "none"
    /\ cliReturn = "none"
    /\ stageStarted = FALSE
    /\ pcPf = "idle"

RtIdle ==
    /\ rtToLang = ""
    /\ rtStatus = FALSE
    /\ rtResponse = <<>>
    /\ rtPingCalls = 0
    /\ rtEpubReads = 0
    /\ rtEpubWrites = 0
    /\ rtRequests = 0
    /\ rtResult = "none"
    /\ pcRt = "idle"

OcIdle ==
    /\ ocInjected = FALSE
    /\ ocMissing = {}
    /\ ocMaxRetries = 0
    /\ ocResult = "none"
    /\ ocAttempts = 0
    /\ ocEntry = "none"
    /\ ocOutput = "none"
    /\ pcOc = "idle"

LogIdle ==
    /\ lgWriter = "idle"
    /\ lgStep = 0
    /\ refLog = <<>>
    /\ obsLog = <<>>
    /\ refResult = "none"
    /\ obsResult = "none"
    /\ obsSteps = 0
    /\ pcLog = "idle"

RcIdle ==
    /\ rcText = <<>>
    /\ rcFirst = <<>>
    /\ rcSecond = <<>>
    /\ rcBuilt = <<>>
    /\ pcBuilder = "idle"
    /\ pcRc = "idle"

TtIdle ==
    /\ ttSegments = <<>>
    /\ ttToLang = ""
    /\ ttLimitDocs = 0
    /\ ttMaxRetries = 0
    /\ ttBatches = <<>>
    /\ ttBatchIdx = 0
    /\ ttAttempt = 0
    /\ ttTranslated = <<>>
    /\ ttPosts = <<>>
    /\ ttSleeps = <<>>
    /\ ttFailed = {}
    /\ ttResult = "none"
    /\ pcTt = "idle"

ShIdle ==
    /\ shClock = 0
    /\ shStore = <<>>
    /\ shTracked = <<>>
    /\ shLive = <<>>
    /\ shMine = <<>>
    /\ shUploads = <<>>
    /\ shReading = <<>>
    /\ shClobbered = FALSE
    /\ shLast = <<>>

SpIdle ==
    /\ spText = <<>>
    /\ spParas = <<>>
    /\ spFallbackReached = FALSE
    /\ spFallback = <<>>
    /\ pcSp = "idle"

BoundaryIdle == PingIdle /\ PfIdle /\ RtIdle /\ OcIdle /\ LogIdle /\ RcIdle /\ TtIdle /\ ShIdle /\ SpIdle

\* ------------------------------------------------------------------ bounds
MaxTextLen == 8
MaxTokens == 2
MaxParas == 3
MaxParaLen == 3
MaxBatchParas == 3
MaxBatchChars == 4
MaxChunks == 2
MaxItems == 2
MaxItemParas == 3
MaxCfgParas == 3

\* --------------------------------------------------------------- characters
NL == "\n"
SP == " "
Whitespace == {SP, NL}
Punct == {"."}
Alphabet == {"a", ".", SP, NL}

Texts(n) == UNION {[1..k -> Alphabet] : k \in 0..n}

Min(a, b) == IF a < b THEN a ELSE b

\* s[:n] and s[n:] for n >= 0
Take(s, n) == SubSeq(s, 1, Min(n, Len(s)))
Drop(s, n) == SubSeq(s, n + 1, Len(s))

\* ------------------------------------------------------------- str helpers
RECURSIVE LStrip(_)
LStrip(s) ==
    IF s # <<>> /\ Head(s) \in Whitespace THEN LStrip(Tail(s)) ELSE s

RECURSIVE RStrip(_)
RStrip(s) ==
    IF s # <<>> /\ s[Len(s)] \in Whitespace
    THEN RStrip(SubSeq(s, 1, Len(s) - 1))
    ELSE s

\* str.strip()
Strip(s) == LStrip(RStrip(s))

\* str.split("\n\n"): left-to-right, non-overlapping; always at least one piece
RECURSIVE SplitBlank(_)
SplitBlank(s) ==
    LET hits == {i \in 1..(Len(s) - 1) : s[i] = NL /\ s[i + 1] = NL}
    IN  IF hits = {}
        THEN <<s>>
        ELSE LET i == CHOOSE j \in hits : \A k \in hits : j <= k
             IN  <<SubSeq(s, 1, i - 1)>> \o SplitBlank(Drop(s, i + 1))

\* re.split(r'(?<=[.!?])\s+', s): a separator is a maximal whitespace run that
\* directly follows a sentence-ending character
RECURSIVE SplitSentences(_)
SplitSentences(s) ==
    LET hits == {i \in 2..Len(s) : s[i - 1] \in Punct /\ s[i] \in Whitespace}
    IN  IF hits = {}
        THEN <<s>>
        ELSE LET i == CHOOSE j \in hits : \A k \in hits : j <= k
             IN  <<SubSeq(s, 1, i - 1)>> \o SplitSentences(LStrip(Drop(s, i - 1)))

\* "sep".join(parts)
RECURSIVE Join(_, _)
Join(parts, sep) ==
    IF parts = <<>> THEN <<>>
    ELSE IF Len(parts) = 1 THEN parts[1]
    ELSE parts[1] \o sep \o Join(Tail(parts), sep)

ParaSep == <<NL, NL>>

\* [p.strip() for p in s.split("\n\n") if p.strip()]
RECURSIVE StripAll(_)
StripAll(ps) == IF ps = <<>> THEN <<>> ELSE <<Strip(Head(ps))>> \o StripAll(Tail(ps))

TrimmedParagraphs(s) == SelectSeq(StripAll(SplitBlank(s)), LAMBDA p : p # <<>>)

\* ---------------------------------------------------------------- chunk_text
\* the loop state of chunk_text: the chunks emitted so far and current_chunk
ChunkState(cs, cur) == [chunks |-> cs, cur |-> cur]

\* chunks.append(current_chunk.strip()); current_chunk = piece
FlushAndStart(st, piece) == ChunkState(Append(st.chunks, Strip(st.cur)), piece)

\* mutant of ForceSplit: the remainder starts one character too late
ForceSplit_SkipsOne(st, sentence, maxChars) ==
    ChunkState(Append(st.chunks, Take(sentence, maxChars)), Drop(sentence, maxChars + 1))

\* chunks.append(sentence[:max_chars]); current_chunk = sentence[max_chars:]
ForceSplit(st, sentence, maxChars) ==
    ChunkState(Append(st.chunks, Take(sentence, maxChars)), Drop(sentence, maxChars))

\* mutant of Accumulate: pieces are joined by a single line break
Accumulate_SingleNewline(st, piece, sep) ==
    ChunkState(st.chunks, IF st.cur # <<>> THEN st.cur \o <<NL>> \o piece ELSE piece)

\* current_chunk += sep + piece if current_chunk else piece
Accumulate(st, piece, sep) ==
    ChunkState(st.chunks, IF st.cur # <<>> THEN st.cur \o sep \o piece ELSE piece)

\* body of "for sentence in sentences"
SentenceStep(st, sentence, maxChars) ==
    IF Len(st.cur) + Len(sentence) > maxChars
    THEN IF st.cur # <<>>
         THEN FlushAndStart(st, sentence)
         ELSE ForceSplit(st, sentence, maxChars)
    ELSE Accumulate(st, sentence, <<SP>>)

RECURSIVE SentenceLoop(_, _, _)
SentenceLoop(st, sentences, maxChars) ==
    IF sentences = <<>> THEN st
    ELSE SentenceLoop(SentenceStep(st, Head(sentences), maxChars),
                      Tail(sentences), maxChars)

\* body of "for paragraph in paragraphs"
ParagraphStep(st, paragraph, maxChars) ==
    IF Len(st.cur) + Len(paragraph) > maxChars
    THEN IF st.cur # <<>>
         THEN FlushAndStart(st, paragraph)
         ELSE SentenceLoop(st, SplitSentences(paragraph), maxChars)
    ELSE Accumulate(st, paragraph, ParaSep)

RECURSIVE ParagraphLoop(_, _, _)
ParagraphLoop(st, paras, maxChars) ==
    IF paras = <<>> THEN st
    ELSE ParagraphLoop(ParagraphStep(st, Head(paras), maxChars),
                       Tail(paras), maxChars)

\* max_chars = max_tokens_per_chunk * 2
MaxChars(tokens) == tokens * 2

chunk_text(t, tokens) ==
    LET st == ParagraphLoop(ChunkState(<<>>, <<>>), SplitBlank(t), MaxChars(tokens))
    IN  IF st.cur # <<>> THEN Append(st.chunks, Strip(st.cur)) ELSE st.chunks

\* --------------------------------------- _batch_paragraphs / _batch_segments
\* the loop state: the batches emitted so far, the open batch, its characters
BatchState(bs, cur, n) == [batches |-> bs, cur |-> cur, chars |-> n]

\* mutant of BatchStep: the paragraph that closes a batch is not carried over
BatchStep_DropsCarry(st, p, limitParas, limitChars) ==
    IF st.cur # <<>>
       /\ (Len(st.cur) + 1 > limitParas \/ st.chars + Len(p) > limitChars)
    THEN BatchState(Append(st.batches, st.cur), <<>>, 0)
    ELSE BatchState(st.batches, Append(st.cur, p), st.chars + Len(p))

\* mutant of BatchStep: the paragraph count is tested before the append
BatchStep_CountOffByOne(st, p, limitParas, limitChars) ==
    IF st.cur # <<>>
       /\ (Len(st.cur) > limitParas \/ st.chars + Len(p) > limitChars)
    THEN BatchState(Append(st.batches, st.cur), <<p>>, Len(p))
    ELSE BatchState(st.batches, Append(st.cur, p), st.chars + Len(p))

\* body of "for p in paragraphs" of _batch_paragraphs
BatchStep(st, p, limitParas, limitChars) ==
    IF st.cur # <<>>
       /\ (Len(st.cur) + 1 > limitParas \/ st.chars + Len(p) > limitChars)
    THEN BatchState(Append(st.batches, st.cur), <<p>>, Len(p))
    ELSE BatchState(st.batches, Append(st.cur, p), st.chars + Len(p))

RECURSIVE BatchLoop(_, _, _, _)
BatchLoop(st, ps, limitParas, limitChars) ==
    IF ps = <<>> THEN st
    ELSE BatchLoop(BatchStep(st, Head(ps), limitParas, limitChars),
                   Tail(ps), limitParas, limitChars)

\* EPUBTranslator._batch_paragraphs with runtime_cfg = (limitParas, limitChars)
batch_paragraphs(ps, limitParas, limitChars) ==
    LET st == BatchLoop(BatchState(<<>>, <<>>, 0), ps, limitParas, limitChars)
    IN  IF st.cur # <<>> THEN Append(st.batches, st.cur) ELSE st.batches

\* body of "for s in segments" of _batch_segments
SegmentStep(st, seg, limitDocs, limitChars) ==
    IF st.cur # <<>>
       /\ (Len(st.cur) + 1 > limitDocs \/ st.chars + Len(seg) > limitChars)
    THEN BatchState(Append(st.batches, st.cur), <<seg>>, Len(seg))
    ELSE BatchState(st.batches, Append(st.cur, seg), st.chars + Len(seg))

RECURSIVE SegmentLoop(_, _, _, _)
SegmentLoop(st, segs, limitDocs, limitChars) ==
    IF segs = <<>> THEN st
    ELSE SegmentLoop(SegmentStep(st, Head(segs), limitDocs, limitChars),
                     Tail(segs), limitDocs, limitChars)

\* AzureTranslator._batch_segments, the batches in the order they are yielded;
\* limitDocs and limitChars stand for the class attributes MAX_DOCS_PER_REQUEST
\* and MAX_CHARS_PER_REQUEST
batch_segments(segs, limitDocs, limitChars) ==
    LET st == SegmentLoop(BatchState(<<>>, <<>>, 0), segs, limitDocs, limitChars)
    IN  IF st.cur # <<>> THEN Append(st.batches, st.cur) ELSE st.batches

ParagraphAlphabet == {"a", "b"}
\* the batchers read only len(p): a paragraph is k times the same letter
ParagraphTexts ==
    {[i \in 1..k |-> c] : k \in 0..MaxParaLen, c \in ParagraphAlphabet}
ParagraphLists == UNION {[1..k -> ParagraphTexts] : k \in 0..MaxParas}

\* ------------------------------------------------------ SpecBatch behaviour
InitBatch ==
    /\ paragraphs \in ParagraphLists
    /\ maxParas \in 1..MaxBatchParas
    /\ maxBatchChars \in 1..MaxBatchChars
    /\ batches = <<>>
    /\ segBatches = <<>>
    /\ pcBatch = "input"
    /\ ChunkIdle
    /\ CleanIdle
    /\ TransIdle
    /\ RunIdle
    /\ BoundaryIdle

BatchCall ==
    /\ pcBatch = "input"
    /\ batches' = batch_paragraphs(paragraphs, maxParas, maxBatchChars)
    /\ segBatches' = batch_segments(paragraphs, maxParas, maxBatchChars)
    /\ pcBatch' = "done"
    /\ UNCHANGED <<paragraphs, maxParas, maxBatchChars, chunkVars, cleanVars,
                   transVars, runVars, boundaryVars>>

NextBatch == BatchCall

SpecBatch == InitBatch /\ [][NextBatch]_vars

\* ------------------------------------------------------------- clean_chunks
\* max_retries = 3 (a local of clean_chunks)
max_retries == 3

\* retry_delay = 2 (a local of clean_chunks)
retry_delay == 2

\* what the chunks handed to clean_chunks look like
ChunkTexts == {<<"a">>, <<"b">>}
ChunkLists == UNION {[1..k -> ChunkTexts] : k \in 0..MaxChunks}

\* response.choices[0].message.content as the service may return it
Contents == {<<"x">>, <<SP, "y", NL>>}

\* the call raised, or content was None (.strip() raises)
CallError == "error"

\* cleaned_text = response.choices[0].message.content.strip()
CleanedText(content) == Strip(content)

\* "if reporter: reporter.on_...(...)": the callback may raise
ReporterMayRaise == reporter = "faulty"

\* the statements after cleaned_chunks.append inside the try block:
\* reporter.on_chunk_result, and the debug-artifact writes when debug is on
PostAppendMayRaise == ReporterMayRaise \/ debugOn

\* the request and the response file of attempt + 1 of chunk i
AttemptArtifacts == {<<ci, attempt + 1, "request">>, <<ci, attempt + 1, "response">>}

\* the files a debug write leaves behind when it raises: none (mkdir or the
\* request file fails) or the request file alone (the response file fails)
PartialArtifacts == {{}, {<<ci, attempt + 1, "request">>}}

RecordCall(outcome) ==
    llmCalls' = [llmCalls EXCEPT ![ci] = Append(@, outcome)]

\* leaving the attempt loop for chunk i: next chunk, or the summary
NextChunkOrSummary ==
    /\ attempt' = 0
    /\ IF ci < Len(ccChunks)
       THEN ci' = ci + 1 /\ pcClean' = "chunk"
       ELSE ci' = ci /\ pcClean' = "summary"

\* the except branch of one attempt, entered with cleaned_chunks = soFar
ExceptBranch(soFar) ==
    IF attempt < max_retries - 1
    THEN \* reporter.on_retry; time.sleep; next attempt (total_retries += 1)
         \/ /\ cleaned' = soFar
            /\ attempt' = attempt + 1
            /\ totalRetries' = totalRetries + 1
            /\ sleeps' = [sleeps EXCEPT ![ci] = Append(@, retry_delay)]
            /\ pcClean' = "attempt"
            /\ ci' = ci
         \/ /\ ReporterMayRaise
            /\ cleaned' = soFar
            /\ pcClean' = "raised"
            /\ UNCHANGED <<ci, attempt, totalRetries, sleeps>>
    ELSE \* reporter.on_error_giveup; cleaned_chunks.append(chunk)
         \/ /\ cleaned' = Append(soFar, ccChunks[ci])
            /\ NextChunkOrSummary
            /\ UNCHANGED <<totalRetries, sleeps>>
         \/ /\ ReporterMayRaise
            /\ cleaned' = soFar
            /\ pcClean' = "raised"
            /\ UNCHANGED <<ci, attempt, totalRetries, sleeps>>

InitClean ==
    /\ ccChunks \in ChunkLists
    /\ reporter \in {"none", "reliable", "faulty"}
    /\ debugOn \in BOOLEAN
    /\ cleaned = <<>>
    /\ ci = 0
    /\ attempt = 0
    /\ totalRetries = 0
    /\ llmCalls = [i \in 1..Len(ccChunks) |-> <<>>]
    /\ sleeps = [i \in 1..Len(ccChunks) |-> <<>>]
    /\ artifacts = {}
    /\ pcClean = "start"
    /\ ChunkIdle
    /\ BatchIdle
    /\ TransIdle
    /\ RunIdle
    /\ BoundaryIdle

\* reporter.on_stage("Preparing content"); reporter.on_chunking_done(total)
CleanBegin ==
    /\ pcClean = "start"
    /\ \/ /\ IF Len(ccChunks) = 0
             THEN ci' = 0 /\ pcClean' = "summary"
             ELSE ci' = 1 /\ pcClean' = "chunk"
       \/ /\ ReporterMayRaise
          /\ pcClean' = "raised"
          /\ ci' = ci
    /\ UNCHANGED <<ccChunks, reporter, debugOn, cleaned, attempt,
                   totalRetries, llmCalls, sleeps, artifacts, chunkVars, batchVars,
                   transVars, runVars, boundaryVars>>

\* top of "for i, chunk": reporter.on_chunk_start; reporter.on_llm_submit
ChunkBegin ==
    /\ pcClean = "chunk"
    /\ \/ pcClean' = "attempt"
       \/ ReporterMayRaise /\ pcClean' = "raised"
    /\ UNCHANGED <<ccChunks, reporter, debugOn, cleaned, ci, attempt,
                   totalRetries, llmCalls, sleeps, artifacts, chunkVars, batchVars,
                   transVars, runVars, boundaryVars>>

\* one attempt in which the call returns content, the text is appended, the
\* result is reported, the debug artifacts are written; break
AttemptSucceeds ==
    /\ pcClean = "attempt"
    /\ \E content \in Contents :
          /\ RecordCall(content)
          /\ cleaned' = Append(cleaned, CleanedText(content))
    /\ artifacts' = IF debugOn THEN artifacts \cup AttemptArtifacts ELSE artifacts
    /\ NextChunkOrSummary
    /\ UNCHANGED <<ccChunks, reporter, debugOn, totalRetries, sleeps,
                   chunkVars, batchVars, transVars, runVars, boundaryVars>>

\* one attempt in which the call (or on_llm_wait_start / on_llm_wait_end
\* around it, or .strip() of a None content) raises: nothing was appended
AttemptFailsBeforeAppend ==
    /\ pcClean = "attempt"
    /\ RecordCall(CallError)
    /\ ExceptBranch(cleaned)
    /\ UNCHANGED <<ccChunks, reporter, debugOn, artifacts, chunkVars, batchVars, transVars, runVars, boundaryVars>>

\* one attempt in which the call returns content and the text is appended,
\* and then reporter.on_chunk_result or a debug-artifact write raises
AttemptFailsAfterAppend ==
    /\ pcClean = "attempt"
    /\ PostAppendMayRaise
    /\ \E content \in Contents :
          /\ RecordCall(content)
          /\ ExceptBranch(Append(cleaned, CleanedText(content)))
    /\ \E written \in (IF debugOn THEN PartialArtifacts ELSE {{}}) :
          artifacts' = artifacts \cup written
    /\ UNCHANGED <<ccChunks, reporter, debugOn, chunkVars, batchVars, transVars, runVars, boundaryVars>>

\* reporter.on_summary(...); return cleaned_chunks
CleanSummary ==
    /\ pcClean = "summary"
    /\ \/ pcClean' = "returned"
       \/ ReporterMayRaise /\ pcClean' = "raised"
    /\ UNCHANGED <<ccChunks, reporter, debugOn, cleaned, ci, attempt,
                   totalRetries, llmCalls, sleeps, artifacts, chunkVars, batchVars,
                   transVars, runVars, boundaryVars>>

NextClean ==
    \/ CleanBegin
    \/ ChunkBegin
    \/ AttemptSucceeds
    \/ AttemptFailsBeforeAppend
    \/ AttemptFailsAfterAppend
    \/ CleanSummary

SpecClean == InitClean /\ [][NextClean]_vars

\* clean_chunks as EPUBOCRCleaner.clean_text_with_llm calls it: the reporter is
\* the console reporter, alone or combined with the JSON reporter, whose
\* callbacks log and swallow their own errors
InitCleanStage == InitClean /\ reporter = "reliable"

SpecCleanStage == InitCleanStage /\ [][NextClean]_vars

\* ------------------------------------------------------- _split_paragraphs
\* str.split("\n"): always at least one piece
RECURSIVE SplitLines(_)
SplitLines(s) ==
    LET hits == {i \in 1..Len(s) : s[i] = NL}
    IN  IF hits = {}
        THEN <<s>>
        ELSE LET i == CHOOSE j \in hits : \A k \in hits : j <= k
             IN  <<SubSeq(s, 1, i - 1)>> \o SplitLines(Drop(s, i))

\* "simple grouping threshold" of the fallback
GroupingThreshold == 2000

\* the fallback loop state: acc, buf and cur_len
GroupState(acc, buf, n) == [acc |-> acc, buf |-> buf, len |-> n]

\* acc.append(" ".join(buf).strip()); buf = []; cur_len = 0   (if buf)
GroupFlush(st) ==
    IF st.buf # <<>>
    THEN GroupState(Append(st.acc, Strip(Join(st.buf, <<SP>>))), <<>>, 0)
    ELSE st

\* body of "for ln in lines" of the fallback
GroupStep(st, ln) ==
    IF ln = <<>>
    THEN GroupFlush(st)
    ELSE LET st1 == IF st.len + Len(ln) > GroupingThreshold THEN GroupFlush(st) ELSE st
         IN  GroupState(st1.acc, Append(st1.buf, ln), st1.len + Len(ln) + 1)

RECURSIVE GroupLoop(_, _)
GroupLoop(st, lines) ==
    IF lines = <<>> THEN st ELSE GroupLoop(GroupStep(st, Head(lines)), Tail(lines))

\* the fallback: split by single newlines and group short lines
FallbackParagraphs(t) ==
    LET st == GroupFlush(GroupLoop(GroupState(<<>>, <<>>, 0),
                                   StripAll(SplitLines(t))))
    IN  SelectSeq(st.acc, LAMBDA q : q # <<>>)

\* "if parts: return parts" is not taken
FallbackReached(t) == t # <<>> /\ TrimmedParagraphs(t) = <<>>

\* mutant of split_paragraphs: the blank pieces are not filtered out
split_paragraphs_KeepsBlank(t) ==
    IF t = <<>> THEN <<>>
    ELSE IF StripAll(SplitBlank(t)) # <<>> THEN StripAll(SplitBlank(t))
    ELSE FallbackParagraphs(t)

split_paragraphs(t) ==
    IF t = <<>> THEN <<>>
    ELSE IF TrimmedParagraphs(t) # <<>> THEN TrimmedParagraphs(t)
    ELSE FallbackParagraphs(t)

\* ------------------------------------------------------------ translate_epub
\* TranslatorRuntimeConfig.max_chars_per_batch
max_chars_per_batch == 30000

\* thresholds min_changed_ratio is drawn from, as <<numerator, denominator>>
Thresholds == {<<0, 1>>, <<3, 10>>, <<1, 2>>, <<1, 1>>}

NavigationNames == {"nav.xhtml", "toc.ncx", "content.opf"}
ChapterNames == <<"ch1.xhtml", "ch2.xhtml", "ch3.xhtml", "ch4.xhtml">>

\* the name of the navigation artifact a document may hold at position i
SpecialNames == <<"nav.xhtml", "Text/Navigation.xhtml", "toc.ncx", "content.opf">>

\* str.lower() on the file names of the model
Lower(name) == IF name = "Text/Navigation.xhtml" THEN "text/navigation.xhtml" ELSE name

\* 'nav' in s, on the lower-cased file names of the model
ContainsNav(s) == s \in {"nav.xhtml", "text/navigation.xhtml"}

\* mutant of IsNavigationFile: only the three exact names are recognised
IsNavigationFile_ExactNamesOnly(name) == name \in NavigationNames

\* item['file_name'] in [...] or 'nav' in item['file_name'].lower()
IsNavigationFile(name) == name \in NavigationNames \/ ContainsNav(Lower(name))

\* the text of a chapter with k one-letter paragraphs
ParagraphLetters == <<"a", "b", "c", "d">>
ChapterText(k) == Join([j \in 1..k |-> <<ParagraphLetters[j]>>], ParaSep)

\* the content items position i of a document may hold: a navigation file, a
\* whitespace-only chapter, or a chapter of 1..MaxItemParas paragraphs
ItemsAt(i) ==
    {[file_name |-> SpecialNames[i], content |-> ChapterText(1)],
     [file_name |-> ChapterNames[i], content |-> <<SP, NL>>]}
    \cup {[file_name |-> ChapterNames[i], content |-> ChapterText(k)] :
            k \in 1..MaxItemParas}

Documents ==
    UNION {{d \in [1..n -> UNION {ItemsAt(i) : i \in 1..n}] :
                \A i \in 1..n : d[i] \in ItemsAt(i)} : n \in 0..MaxItems}

\* ---- the injected provider: translate_text(segments) ----
Echo(seg) == seg
Padded(seg) == seg \o <<SP>>
Translation(seg) == <<"T">> \o seg
Renderings(seg) == {Echo(seg), Padded(seg), Translation(seg)}

\* the providers a run may be given.  "echo" and "one_change" are the
\* EchoTranslator and OneChangeTranslator of the test suite; "drops_last"
\* and "adds_extra" break the one-string-per-segment contract; "raises"
\* fails from its second call on.
Translators ==
    {"echo", "pads", "translates", "one_change", "drops_last", "adds_extra",
     "raises"}

ProviderRaisesOn(callNo) == translator = "raises" /\ callNo >= 2

\* what translate_text(batch) returns
ProviderOutput(batch) ==
    LET all == [i \in 1..Len(batch) |-> Translation(batch[i])]
    IN  CASE translator = "echo" -> batch
          [] translator = "pads" -> [i \in 1..Len(batch) |-> Padded(batch[i])]
          [] translator = "one_change" ->
                [i \in 1..Len(batch) |->
                    IF i = 1 THEN Translation(batch[i]) ELSE batch[i]]
          [] translator = "drops_last" -> SubSeq(all, 1, Len(all) - 1)
          [] translator = "adds_extra" -> Append(all, <<"z">>)
          [] OTHER -> all

\* ---- _status ----
\* mutant of StatusAppend: the file is opened for writing, not for appending
StatusAppend_Overwrites(log, events) ==
    IF statusFile /\ events # <<>> THEN <<events[Len(events)]>> ELSE log

\* self._status(event) for each of events, in order
StatusAppend(log, events) == IF statusFile THEN log \o events ELSE log

\* sum(1 for a, b in zip(paragraphs, translated_paragraphs)
\*     if a.strip() != b.strip())
Diffs(src, out) ==
    Cardinality({i \in 1..Min(Len(src), Len(out)) : Strip(src[i]) # Strip(out[i])})

\* mutant of GateRejects: the ratio is compared with <, not <=
GateRejects_Strict(changed, total) ==
    /\ ~allowNoop
    /\ IF total # 0
       THEN changed * minRatio[2] < minRatio[1] * total
       ELSE 0 < minRatio[1]

\* ratio = changed / max(1, total) if total else 0.0
\* (not self.allow_noop) and (ratio <= self.min_changed_ratio)
GateRejects(changed, total) ==
    /\ ~allowNoop
    /\ IF total # 0
       THEN changed * minRatio[2] <= minRatio[1] * total
       ELSE 0 <= minRatio[1]

InitTranslate ==
    /\ docItems \in Documents
    /\ translator \in Translators
    /\ allowNoop \in BOOLEAN
    /\ minRatio \in Thresholds
    /\ statusFile \in BOOLEAN
    /\ cfgMaxParas \in 1..MaxCfgParas
    /\ itemIdx = 0
    /\ itemParas = <<>>
    /\ pendingBatches = <<>>
    /\ translated = <<>>
    /\ totalItems = 0
    /\ totalParagraphs = 0
    /\ changedParagraphs = 0
    /\ translatedContent = <<>>
    /\ providerCalls = 0
    /\ statusLog = <<>>
    /\ outputBefore \in {"absent", "old"}
    /\ outputEpub = outputBefore
    /\ result = "none"
    /\ pcTrans = "start"
    /\ ChunkIdle
    /\ BatchIdle
    /\ CleanIdle
    /\ RunIdle
    /\ BoundaryIdle

TransConfig == <<docItems, translator, allowNoop, minRatio, statusFile, cfgMaxParas, outputBefore>>
TransCounters == <<totalItems, totalParagraphs, changedParagraphs, translatedContent>>
TransItem == <<itemParas, pendingBatches, translated>>
OtherComponents == <<chunkVars, batchVars, cleanVars, runVars, boundaryVars>>

\* _status("translate_start"); extract_epub_content succeeds
ExtractOk ==
    /\ pcTrans = "start"
    /\ statusLog' = StatusAppend(statusLog, <<"translate_start">>)
    /\ itemIdx' = 1
    /\ pcTrans' = "items"
    /\ UNCHANGED <<TransConfig, TransCounters, TransItem, providerCalls,
                   outputEpub, result, OtherComponents>>

\* _status("translate_start"); extract_epub_content raises EPUBError (outside
\* the try block: no translate_error event)
ExtractFails ==
    /\ pcTrans = "start"
    /\ statusLog' = StatusAppend(statusLog, <<"translate_start">>)
    /\ result' = "EPUBError"
    /\ pcTrans' = "raised"
    /\ UNCHANGED <<TransConfig, TransCounters, TransItem, providerCalls,
                   itemIdx, outputEpub, OtherComponents>>

Eligible(item) ==
    /\ ~IsNavigationFile(item.file_name)
    /\ Strip(item.content) # <<>>

\* a navigation file or an empty item: continue
SkipItem ==
    /\ pcTrans = "items"
    /\ itemIdx <= Len(docItems)
    /\ ~Eligible(docItems[itemIdx])
    /\ itemIdx' = itemIdx + 1
    /\ UNCHANGED <<TransConfig, TransCounters, TransItem, providerCalls,
                   statusLog, outputEpub, result, pcTrans, OtherComponents>>

\* the item loop up to the first provider call: total_items += 1,
\* _split_paragraphs, total_paragraphs += len(paragraphs), _batch_paragraphs
BeginItem ==
    /\ pcTrans = "items"
    /\ itemIdx <= Len(docItems)
    /\ Eligible(docItems[itemIdx])
    /\ LET ps == split_paragraphs(docItems[itemIdx].content)
           bs == batch_paragraphs(ps, cfgMaxParas, max_chars_per_batch)
       IN  /\ itemParas' = ps
           /\ pendingBatches' = bs
           /\ translated' = <<>>
           /\ totalItems' = totalItems + 1
           /\ totalParagraphs' = totalParagraphs + Len(ps)
           /\ statusLog' = StatusAppend(statusLog,
                  <<"translate_item_start", "translate_item_chunking_done">>)
    /\ pcTrans' = "batches"
    /\ UNCHANGED <<TransConfig, changedParagraphs, translatedContent,
                   providerCalls, itemIdx, outputEpub, result, OtherComponents>>

\* translated_content.append(...) for the item whose paragraphs came back as out
ItemEntry(out) ==
    [file_name |-> docItems[itemIdx].file_name,
     source |-> itemParas,
     translated |-> out,
     translated_text |-> Join(out, ParaSep)]

\* one translator.translate_text(batch) call of _translate_paragraphs; after
\* the last batch of the item, the rest of the item loop body
TranslateBatch ==
    /\ pcTrans = "batches"
    /\ pendingBatches # <<>>
    /\ ~ProviderRaisesOn(providerCalls + 1)
    /\ LET all == translated \o ProviderOutput(Head(pendingBatches))
       IN  IF Len(pendingBatches) > 1
           THEN /\ translated' = all
                /\ pendingBatches' = Tail(pendingBatches)
                /\ statusLog' = StatusAppend(statusLog,
                       <<"translate_batch_start", "translate_batch_done">>)
                /\ UNCHANGED <<itemParas, changedParagraphs, translatedContent,
                               itemIdx, pcTrans>>
           ELSE /\ translated' = <<>>
                /\ pendingBatches' = <<>>
                /\ itemParas' = <<>>
                /\ changedParagraphs' = changedParagraphs + Diffs(itemParas, all)
                /\ translatedContent' = Append(translatedContent, ItemEntry(all))
                /\ statusLog' = StatusAppend(statusLog,
                       <<"translate_batch_start", "translate_batch_done",
                         "translate_item_done">>)
                /\ itemIdx' = itemIdx + 1
                /\ pcTrans' = "items"
    /\ providerCalls' = providerCalls + 1
    /\ UNCHANGED <<TransConfig, totalItems, totalParagraphs, outputEpub, result,
                   OtherComponents>>

\* translator.translate_text(batch) raises: the exception leaves
\* _translate_paragraphs and the item loop; except: _status("translate_error")
ProviderRaises ==
    /\ pcTrans = "batches"
    /\ pendingBatches # <<>>
    /\ ProviderRaisesOn(providerCalls + 1)
    /\ providerCalls' = providerCalls + 1
    /\ statusLog' = StatusAppend(statusLog,
           <<"translate_batch_start", "translate_error">>)
    /\ result' = "ProviderError"
    /\ pcTrans' = "raised"
    /\ UNCHANGED <<TransConfig, TransCounters, TransItem, itemIdx, outputEpub,
                   OtherComponents>>

AllItemsSeen == pcTrans = "items" /\ itemIdx > Len(docItems)

\* the guard rejects: _status("translate_noop"); raise TranslationError;
\* except: _status("translate_error"); raise
GateReject ==
    /\ AllItemsSeen
    /\ GateRejects(changedParagraphs, totalParagraphs)
    /\ statusLog' = StatusAppend(StatusAppend(statusLog, <<"translate_noop">>),
                                 <<"translate_error">>)
    /\ result' = "TranslationError"
    /\ pcTrans' = "raised"
    /\ UNCHANGED <<TransConfig, TransCounters, TransItem, providerCalls,
                   itemIdx, outputEpub, OtherComponents>>

\* mutant of WriteOutput: the container is written without content too
WriteOutput_WithoutContent ==
    /\ AllItemsSeen
    /\ ~GateRejects(changedParagraphs, totalParagraphs)
    /\ outputEpub' = "translated"
    /\ statusLog' = StatusAppend(statusLog, <<"translate_done">>)
    /\ result' = "ok"
    /\ pcTrans' = "returned"
    /\ UNCHANGED <<TransConfig, TransCounters, TransItem, providerCalls,
                   itemIdx, OtherComponents>>

\* the guard accepts and _create_translated_epub writes the container;
\* _status("translate_done"); return output_epub
WriteOutput ==
    /\ AllItemsSeen
    /\ ~GateRejects(changedParagraphs, totalParagraphs)
    /\ translatedContent # <<>>
    /\ outputEpub' = "translated"
    /\ statusLog' = StatusAppend(statusLog, <<"translate_done">>)
    /\ result' = "ok"
    /\ pcTrans' = "returned"
    /\ UNCHANGED <<TransConfig, TransCounters, TransItem, providerCalls,
                   itemIdx, OtherComponents>>

\* the guard accepts and _create_translated_epub raises EPUBError: there is
\* no content, or epub.write_epub fails; except: _status("translate_error")
WriteFails ==
    /\ AllItemsSeen
    /\ ~GateRejects(changedParagraphs, totalParagraphs)
    /\ IF translatedContent = <<>>
       THEN outputEpub' = outputEpub
       ELSE outputEpub' \in {outputEpub, "partial"}
    /\ statusLog' = StatusAppend(statusLog, <<"translate_error">>)
    /\ result' = "EPUBError"
    /\ pcTrans' = "raised"
    /\ UNCHANGED <<TransConfig, TransCounters, TransItem, providerCalls,
                   itemIdx, OtherComponents>>

NextTranslate ==
    \/ ExtractOk
    \/ ExtractFails
    \/ SkipItem
    \/ BeginItem
    \/ TranslateBatch
    \/ ProviderRaises
    \/ GateReject
    \/ WriteOutput
    \/ WriteFails

SpecTranslate == InitTranslate /\ [][NextTranslate]_vars

\* =================================================== the pipeline stages
\* the inputs a run may be given: a local path, URLs, and a path with another
\* scheme
InputPaths ==
    {<<"", "scan.pdf">>, <<"http://", "host/scan.pdf">>,
     <<"https://", "host/scan.pdf">>, <<"ftp://", "host/scan.pdf">>}

\* mutant of StartsWithUrlScheme: only http:// is recognised
StartsWithUrlScheme_HttpOnly(path) == path[1] = "http://"

\* input_path.startswith(("http://", "https://"))
StartsWithUrlScheme(path) == path[1] \in {"http://", "https://"}

\* what upload_pdf returns: the SAS URL of the blob
SasUrl == <<"https://", "account.blob.core.windows.net/container/blob?sas">>

\* the blob name _generate_unique_blob_name gives the upload of this run
BlobName == "blob"

\* debug_mode and debug_dir
DebugKept_DebugDirOnly == debugDir
DebugKept == debug /\ debugDir

\* _status(event) for each of events, in order (pipeline.py, preflight.py)
RunStatus(log, events) == IF statusPath THEN log \o events ELSE log

\* max_retries of _get_analyze_result
poll_max_retries == 60

\* what one GET of the analyzer result may give
PollResponses ==
    {"Succeeded", "Failed", "Running", "NotStarted", "Cancelled", "RequestException"}

\* the interim EPUB run_ocr_to_epub builds: one chapter and the navigation
\* document ebooklib adds
InterimDocument ==
    <<[file_name |-> "documentcontent.xhtml", content |-> ChapterText(1)],
      [file_name |-> "nav.xhtml", content |-> ChapterText(1)]>>

\* what the status file may hold when the run starts: the events of the
\* preflight checks, if they ran
PreflightEvents == {<<>>, <<"preflight_start", "preflight_ok">>}

InitRun ==
    /\ command \in {"convert", "clean"}
    /\ inputPath \in (IF command = "convert" THEN InputPaths ELSE {<<"", "">>})
    /\ debug \in BOOLEAN
    /\ debugDir \in BOOLEAN
    /\ cleanupOnFailure \in (IF command = "convert" THEN BOOLEAN ELSE {FALSE})
    /\ saveInterim \in BOOLEAN
    /\ statusPath \in BOOLEAN
    /\ translateTo \in (IF command = "clean" THEN BOOLEAN ELSE {FALSE})
    /\ storageHandler = FALSE
    /\ uploadedBlobs = {}
    /\ storedBlobs = {}
    /\ deleteAttempts = {}
    /\ pdfUrl = <<"none">>
    /\ submitted = FALSE
    /\ pollAttempt = 0
    /\ ocrStatus = "none"
    /\ interimEpub = "absent"
    /\ backupEpub = "absent"
    /\ runLog \in (IF statusPath THEN PreflightEvents ELSE {<<>>})
    /\ epubItems \in (IF command = "clean" THEN Documents ELSE {<<>>})
    /\ epubIdx = 0
    /\ cleanedContent = <<>>
    /\ cleanupCalls = <<>>
    /\ tempDir = "none"
    /\ interimDir = "none"
    /\ finalBefore \in {"absent", "old"}
    /\ finalEpub = finalBefore
    /\ translateEntered = FALSE
    /\ pendingError = "none"
    /\ runResult = "none"
    /\ pcRun = (IF command = "convert" THEN "start" ELSE "cleaner_init")
    /\ ChunkIdle
    /\ BatchIdle
    /\ CleanIdle
    /\ TransIdle
    /\ BoundaryIdle

NotRun == <<chunkVars, batchVars, cleanVars, transVars, boundaryVars>>

\* ---- run_full_pipeline / run_ocr_to_epub ----
\* _status("pipeline_start"); run_ocr_to_epub: _status("ocr_start"); the
\* test on input_path
PipelineStart ==
    /\ pcRun = "start"
    /\ runLog' = RunStatus(runLog, <<"pipeline_start", "ocr_start">>)
    /\ IF StartsWithUrlScheme(inputPath)
       THEN /\ pdfUrl' = inputPath
            /\ pcRun' = "submit"
       ELSE /\ pdfUrl' = inputPath
            /\ pcRun' = "storage"
    /\ UNCHANGED <<runConfig, storageHandler, uploadedBlobs, storedBlobs,
                   deleteAttempts, submitted, pollAttempt, ocrStatus, epubVars,
                   interimEpub, translateEntered, pendingError, runResult, backupEpub, NotRun>>

\* storage_handler = AzureStorageHandler(...); _status("upload_start")
CreateStorageHandler ==
    /\ pcRun = "storage"
    /\ storageHandler' = TRUE
    /\ runLog' = RunStatus(runLog, <<"upload_start">>)
    /\ pcRun' = "upload"
    /\ UNCHANGED <<runConfig, uploadedBlobs, storedBlobs, deleteAttempts, pdfUrl,
                   submitted, pollAttempt, ocrStatus, epubVars, interimEpub,
                   translateEntered, pendingError, runResult, backupEpub, NotRun>>

\* AzureStorageHandler(...) raises: storage_handler stays None
CreateStorageHandlerFails ==
    /\ pcRun = "storage"
    /\ pendingError' = "StorageError"
    /\ pcRun' = "ocr_finally"
    /\ UNCHANGED <<runConfig, ocrVars, epubVars, interimEpub, runLog,
                   translateEntered, runResult, backupEpub, NotRun>>

\* pdf_url = storage_handler.upload_pdf(input_path); _status("upload_done")
UploadOk ==
    /\ pcRun = "upload"
    /\ storedBlobs' = storedBlobs \cup {BlobName}
    /\ uploadedBlobs' = uploadedBlobs \cup {BlobName}
    /\ pdfUrl' = SasUrl
    /\ runLog' = RunStatus(runLog, <<"upload_done">>)
    /\ pcRun' = "submit"
    /\ UNCHANGED <<runConfig, storageHandler, deleteAttempts, submitted,
                   pollAttempt, ocrStatus, epubVars, interimEpub,
                   translateEntered, pendingError, runResult, backupEpub, NotRun>>

\* upload_pdf raises StorageError: the file is missing or too large, the
\* upload fails, or the SAS URL cannot be generated after the upload (the
\* blob is then deleted, or stays when delete_blob fails too)
UploadFails ==
    /\ pcRun = "upload"
    /\ \E how \in {"rejected", "upload_failed", "sas_failed", "sas_failed_blob_kept"} :
          /\ deleteAttempts' =
                IF how = "rejected" THEN deleteAttempts
                ELSE deleteAttempts \cup {BlobName}
          /\ storedBlobs' =
                IF how = "sas_failed_blob_kept" THEN storedBlobs \cup {BlobName}
                ELSE storedBlobs
          /\ uploadedBlobs' =
                IF how = "sas_failed_blob_kept" THEN uploadedBlobs \cup {BlobName}
                ELSE uploadedBlobs
    /\ pendingError' = "StorageError"
    /\ pcRun' = "ocr_finally"
    /\ UNCHANGED <<runConfig, storageHandler, pdfUrl, submitted, pollAttempt,
                   ocrStatus, epubVars, interimEpub, runLog, translateEntered,
                   runResult, backupEpub, NotRun>>

\* PDFOCRProcessor(...); _status("content_understanding_submit");
\* process_pdf: _send_analyze_request returns the operation id
SubmitOk ==
    /\ pcRun = "submit"
    /\ runLog' = RunStatus(runLog, <<"content_understanding_submit">>)
    /\ submitted' = TRUE
    /\ pcRun' = "poll"
    /\ UNCHANGED <<runConfig, storageHandler, uploadedBlobs, storedBlobs,
                   deleteAttempts, pdfUrl, pollAttempt, ocrStatus, epubVars,
                   interimEpub, translateEntered, pendingError, runResult, backupEpub, NotRun>>

\* PDFOCRProcessor(...) raises ValueError (before the status event), or
\* _send_analyze_request raises (after it)
SubmitFails ==
    /\ pcRun = "submit"
    /\ \E constructed \in BOOLEAN :
          /\ runLog' = IF constructed
                       THEN RunStatus(runLog, <<"content_understanding_submit">>)
                       ELSE runLog
          /\ pendingError' = IF constructed THEN "Exception" ELSE "ValueError"
    /\ pcRun' = "ocr_finally"
    /\ UNCHANGED <<runConfig, ocrVars, epubVars, interimEpub, translateEntered,
                   runResult, backupEpub, NotRun>>

\* ---- PDFOCRProcessor._get_analyze_result ----
\* mutant of PollOutcome: only status Failed raises, any other status that
\* is not Running or NotStarted returns the result
PollOutcome_UnexpectedReturns(response, attemptNo) ==
    CASE response = "Succeeded" -> "return"
      [] response = "Failed" -> "raise"
      [] response \in {"Running", "NotStarted"} ->
            IF attemptNo + 1 < poll_max_retries THEN "retry" ELSE "timeout"
      [] response = "RequestException" ->
            IF attemptNo < poll_max_retries - 1 THEN "retry" ELSE "raise"
      [] OTHER -> "return"

\* what iteration attemptNo (0-based) of the polling loop does with a response
PollOutcome(response, attemptNo) ==
    CASE response = "Succeeded" -> "return"
      [] response = "Failed" -> "raise"
      [] response \in {"Running", "NotStarted"} ->
            IF attemptNo + 1 < poll_max_retries THEN "retry" ELSE "timeout"
      [] response = "RequestException" ->
            IF attemptNo < poll_max_retries - 1 THEN "retry" ELSE "raise"
      [] OTHER -> "raise"

\* how the service's answer to iteration attemptNo ends the operation, "none"
\* while the loop goes on
PollStatus(response, attemptNo) ==
    CASE response = "Succeeded" -> "Succeeded"
      [] response = "Failed" -> "Failed"
      [] response \in {"Running", "NotStarted"} ->
            IF attemptNo + 1 < poll_max_retries THEN "none" ELSE "Timeout"
      [] response = "RequestException" ->
            IF attemptNo < poll_max_retries - 1 THEN "none" ELSE "NetworkError"
      [] OTHER -> "Unexpected"

PollError(response) ==
    CASE response = "RequestException" -> "RequestException"
      [] response \in {"Running", "NotStarted"} -> "TimeoutError"
      [] OTHER -> "Exception"

\* one iteration of the polling loop: requests.get and the status test
Poll ==
    /\ pcRun = "poll"
    /\ pollAttempt < poll_max_retries
    /\ \E response \in PollResponses :
          LET outcome == PollOutcome(response, pollAttempt)
          IN  /\ ocrStatus' = PollStatus(response, pollAttempt)
              /\ pcRun' = CASE outcome = "return" -> "received"
                            [] outcome = "retry" -> "poll"
                            [] OTHER -> "ocr_finally"
              /\ pendingError' = IF outcome \in {"raise", "timeout"}
                                 THEN PollError(response)
                                 ELSE pendingError
    /\ pollAttempt' = pollAttempt + 1
    /\ UNCHANGED <<runConfig, storageHandler, uploadedBlobs, storedBlobs,
                   deleteAttempts, pdfUrl, submitted, epubVars, interimEpub,
                   runLog, translateEntered, runResult, backupEpub, NotRun>>

\* process_pdf returns; _status("content_understanding_result_received");
\* extract_text_from_ocr_result; _status("ocr_text_extracted")
OcrTextExtracted ==
    /\ pcRun = "received"
    /\ runLog' = RunStatus(runLog, <<"content_understanding_result_received",
                                     "ocr_text_extracted">>)
    /\ pcRun' = "build"
    /\ UNCHANGED <<runConfig, ocrVars, epubVars, interimEpub, translateEntered,
                   pendingError, runResult, backupEpub, NotRun>>

\* process_pdf fails to write azure_cu_result.json in debug mode, or
\* extract_text_from_ocr_result raises on the result
OcrTextExtractionFails ==
    /\ pcRun = "received"
    /\ \E received \in BOOLEAN :
          /\ ~received => DebugKept
          /\ runLog' = IF received
                       THEN RunStatus(runLog, <<"content_understanding_result_received">>)
                       ELSE runLog
    /\ pendingError' = "Exception"
    /\ pcRun' = "ocr_finally"
    /\ UNCHANGED <<runConfig, ocrVars, epubVars, interimEpub, translateEntered,
                   runResult, backupEpub, NotRun>>

\* EPUBBuilder: add_chapter, _status("build_epub_raw_start"), build_epub
\* writes the interim EPUB, _status("build_epub_raw_done"); return
BuildInterimEpub ==
    /\ pcRun = "build"
    /\ runLog' = RunStatus(runLog, <<"build_epub_raw_start", "build_epub_raw_done">>)
    /\ interimEpub' = "written"
    /\ epubItems' = InterimDocument
    /\ pcRun' = "ocr_finally"
    /\ UNCHANGED <<runConfig, ocrVars, epubIdx, cleanedContent, cleanupCalls,
                   tempDir, interimDir, finalEpub, translateEntered,
                   pendingError, runResult, backupEpub, NotRun>>

\* build_epub raises
BuildInterimEpubFails ==
    /\ pcRun = "build"
    /\ runLog' = RunStatus(runLog, <<"build_epub_raw_start">>)
    /\ pendingError' = "Exception"
    /\ pcRun' = "ocr_finally"
    /\ UNCHANGED <<runConfig, ocrVars, epubVars, interimEpub, translateEntered,
                   runResult, backupEpub, NotRun>>

\* mutant of BlobCleanupDue: blobs are deleted only when the stage succeeded
BlobCleanupDue_OnSuccessOnly ==
    storageHandler /\ cleanupOnFailure /\ ~debug /\ pendingError = "none"

\* storage_handler and cfg.processing.cleanup_on_failure and not debug
BlobCleanupDue == storageHandler /\ cleanupOnFailure /\ ~debug

\* the finally clause of run_ocr_to_epub: cleanup_all calls delete_blob for
\* every uploaded blob, a failed deletion is swallowed;
\* _status("upload_cleanup_done").  Then the exception, if any, reaches the
\* caller of run_full_pipeline; otherwise _status("ocr_done"),
\* _status("cleanup_start") and run_cleanup is entered.
OcrFinally ==
    /\ pcRun = "ocr_finally"
    /\ \E deleted \in BOOLEAN :
          LET afterCleanup ==
                  IF BlobCleanupDue
                  THEN RunStatus(runLog, <<"upload_cleanup_done">>)
                  ELSE runLog
          IN  /\ deleted => BlobCleanupDue /\ uploadedBlobs # {}
              /\ deleteAttempts' = IF BlobCleanupDue
                                   THEN deleteAttempts \cup uploadedBlobs
                                   ELSE deleteAttempts
              /\ storedBlobs' = IF deleted THEN storedBlobs \ uploadedBlobs
                                ELSE storedBlobs
              /\ uploadedBlobs' = IF deleted THEN {} ELSE uploadedBlobs
              /\ IF pendingError # "none"
                 THEN /\ runLog' = afterCleanup
                      /\ runResult' = pendingError
                      /\ pcRun' = "failed"
                 ELSE /\ runLog' = RunStatus(afterCleanup, <<"ocr_done", "cleanup_start">>)
                      /\ runResult' = runResult
                      /\ pcRun' = "cleaner_init"
    /\ UNCHANGED <<runConfig, storageHandler, pdfUrl, submitted, pollAttempt,
                   ocrStatus, epubVars, interimEpub, translateEntered,
                   pendingError, backupEpub, NotRun>>

\* ---- run_cleanup: EPUBOCRCleaner(...) ----
\* JsonFileProgressReporter.__init__: status_file.write_text("")
ReporterInit(log) == IF statusPath THEN <<>> ELSE log

\* JsonFileProgressReporter._write for the events of one clean_text_with_llm
\* call (per-chunk events left out)
ReporterEvents == <<"stage", "chunking_done", "summary">>

\* EPUBOCRCleaner.__init__ returns: the client and the reporters exist
CleanerInit ==
    /\ pcRun = "cleaner_init"
    /\ runLog' = ReporterInit(runLog)
    /\ pcRun' = "ce_begin"
    /\ UNCHANGED <<runConfig, ocrVars, epubVars, interimEpub, translateEntered,
                   pendingError, runResult, backupEpub, NotRun>>

\* EPUBOCRCleaner.__init__ raises LLMError (configuration missing), before
\* the reporters are created
CleanerInitFails ==
    /\ pcRun = "cleaner_init"
    /\ runResult' = "LLMError"
    /\ pcRun' = "failed"
    /\ UNCHANGED <<runConfig, ocrVars, epubVars, interimEpub, runLog,
                   translateEntered, pendingError, backupEpub, NotRun>>

\* ---- EPUBOCRCleaner.clean_epub ----
\* item['file_name'] is no navigation file and item['content'].strip()
CleanEligible(item) ==
    /\ ~IsNavigationFile(item.file_name)
    /\ Strip(item.content) # <<>>

\* shutil.copy2(input_path, input_path + ".backup") when no such file
\* exists, interim directory (tempfile.mkdtemp) when save_interim,
\* extract_epub_content returns
CleanEpubBegin ==
    /\ pcRun = "ce_begin"
    /\ interimDir' = IF saveInterim THEN "exists" ELSE interimDir
    /\ tempDir' = "exists"
    /\ backupEpub' = "exists"
    /\ epubIdx' = 1
    /\ pcRun' = "ce_items"
    /\ UNCHANGED <<runConfig, ocrVars, epubItems, cleanedContent, cleanupCalls,
                   finalEpub, interimEpub, runLog, translateEntered,
                   pendingError, runResult, NotRun>>

\* the backup copy raises (outside the try block), or extract_epub_content
\* raises EPUBError after removing its temp_dir unless debug_mode and
\* debug_dir; clean_epub re-raises it as EPUBError
CleanEpubBeginFails ==
    /\ pcRun = "ce_begin"
    /\ \E how \in {"backup", "extract"} :
          /\ interimDir' = IF how = "extract" /\ saveInterim THEN "exists"
                           ELSE interimDir
          /\ tempDir' = CASE how = "backup" -> tempDir
                          [] DebugKept -> "exists"
                          [] OTHER -> "removed"
          /\ backupEpub' = IF how = "extract" THEN "exists" ELSE backupEpub
          /\ runResult' = IF how = "backup" THEN "OSError" ELSE "EPUBError"
    /\ pcRun' = "failed"
    /\ UNCHANGED <<runConfig, ocrVars, epubItems, epubIdx, cleanedContent,
                   cleanupCalls, finalEpub, interimEpub, runLog,
                   translateEntered, pendingError, NotRun>>

\* a navigation file or an item without text: nothing is done for it
CleanSkipItem ==
    /\ pcRun = "ce_items"
    /\ epubIdx <= Len(epubItems)
    /\ ~CleanEligible(epubItems[epubIdx])
    /\ epubIdx' = epubIdx + 1
    /\ UNCHANGED <<runConfig, ocrVars, epubItems, cleanedContent, cleanupCalls,
                   tempDir, interimDir, finalEpub, interimEpub, runLog,
                   translateEntered, pendingError, runResult, pcRun, backupEpub, NotRun>>

\* clean_text_with_llm(item['content']), reconstruct_html, the interim JSON
\* file when save_interim, cleaned_content.append(...)
CleanItem ==
    /\ pcRun = "ce_items"
    /\ epubIdx <= Len(epubItems)
    /\ CleanEligible(epubItems[epubIdx])
    /\ cleanupCalls' = Append(cleanupCalls, epubItems[epubIdx].file_name)
    /\ cleanedContent' = Append(cleanedContent, epubItems[epubIdx].file_name)
    /\ runLog' = RunStatus(runLog, ReporterEvents)
    /\ epubIdx' = epubIdx + 1
    /\ UNCHANGED <<runConfig, ocrVars, epubItems, tempDir, interimDir, finalEpub,
                   interimEpub, translateEntered, pendingError, runResult,
                   pcRun, backupEpub, NotRun>>

\* writing the interim JSON file of the item raises: except Exception ->
\* raise EPUBError; nothing is removed
CleanItemFails ==
    /\ pcRun = "ce_items"
    /\ epubIdx <= Len(epubItems)
    /\ CleanEligible(epubItems[epubIdx])
    /\ saveInterim
    /\ cleanupCalls' = Append(cleanupCalls, epubItems[epubIdx].file_name)
    /\ runLog' = RunStatus(runLog, ReporterEvents)
    /\ runResult' = "EPUBError"
    /\ pcRun' = "failed"
    /\ UNCHANGED <<runConfig, ocrVars, epubItems, epubIdx, cleanedContent,
                   tempDir, interimDir, finalEpub, interimEpub,
                   translateEntered, pendingError, backupEpub, NotRun>>

\* mutant of HasContent: the check of create_cleaned_epub is left out
HasContent_Unchecked(content) == TRUE

\* create_cleaned_epub: "if not cleaned_content: raise EPUBError"
HasContent(content) == content # <<>>

\* create_cleaned_epub writes the EPUB; temp_dir and the interim directory
\* are removed unless debug_mode and debug_dir; clean_epub returns
CreateCleanedEpub ==
    /\ pcRun = "ce_items"
    /\ epubIdx > Len(epubItems)
    /\ HasContent(cleanedContent)
    /\ finalEpub' = "cleaned"
    /\ tempDir' = IF DebugKept THEN tempDir ELSE "removed"
    /\ interimDir' = IF saveInterim /\ ~DebugKept THEN "removed" ELSE interimDir
    /\ pcRun' = "cleanup_returned"
    /\ UNCHANGED <<runConfig, ocrVars, epubItems, epubIdx, cleanedContent,
                   cleanupCalls, interimEpub, runLog, translateEntered,
                   pendingError, runResult, backupEpub, NotRun>>

\* create_cleaned_epub raises EPUBError: there is no content, or
\* epub.write_epub fails; except Exception -> raise EPUBError; nothing is
\* removed
CreateCleanedEpubFails ==
    /\ pcRun = "ce_items"
    /\ epubIdx > Len(epubItems)
    /\ runResult' = "EPUBError"
    /\ pcRun' = "failed"
    /\ UNCHANGED <<runConfig, ocrVars, epubVars, interimEpub, runLog,
                   translateEntered, pendingError, backupEpub, NotRun>>

\* ---- run_full_pipeline after run_cleanup ----
\* _status("cleanup_done"); the interim EPUB is moved into debug_dir, or
\* unlinked; _status("pipeline_done"); return final_path
FinishPipeline ==
    /\ pcRun = "cleanup_returned"
    /\ command = "convert"
    /\ interimEpub' = IF DebugKept THEN "moved" ELSE "removed"
    /\ runLog' = RunStatus(runLog, <<"cleanup_done", "pipeline_done">>)
    /\ runResult' = "ok"
    /\ pcRun' = "done"
    /\ UNCHANGED <<runConfig, ocrVars, epubVars, translateEntered, pendingError,
                   backupEpub, NotRun>>

\* ---- main(), command "clean", after run_cleanup ----
\* mutant of WantsTranslation: the cleaned EPUB is always translated
WantsTranslation_Always == TRUE

\* getattr(args, "translate_to", None)
WantsTranslation == translateTo

\* run_cleanup returned and no translation was asked for: return 0
FinishClean ==
    /\ pcRun = "cleanup_returned"
    /\ command = "clean"
    /\ ~WantsTranslation
    /\ runResult' = "ok"
    /\ pcRun' = "done"
    /\ UNCHANGED <<runConfig, ocrVars, epubVars, interimEpub, runLog,
                   translateEntered, pendingError, backupEpub, NotRun>>

\* run_cleanup returned and a target language was given: run_translate(...)
EnterTranslation ==
    /\ pcRun = "cleanup_returned"
    /\ command = "clean"
    /\ WantsTranslation
    /\ translateEntered' = TRUE
    /\ pcRun' = "translating"
    /\ UNCHANGED <<runConfig, ocrVars, epubVars, interimEpub, runLog,
                   pendingError, runResult, backupEpub, NotRun>>

\* run_translate: the translation stage accepts and writes the translated
\* EPUB over the cleaned one, or fails and leaves it
TranslationStage ==
    /\ pcRun = "translating"
    /\ \E outcome \in {"ok", "TranslationError", "EPUBError"} :
          /\ finalEpub' = IF outcome = "ok" THEN "translated" ELSE finalEpub
          /\ runResult' = outcome
          /\ pcRun' = IF outcome = "ok" THEN "done" ELSE "failed"
    /\ UNCHANGED <<runConfig, ocrVars, epubItems, epubIdx, cleanedContent,
                   cleanupCalls, tempDir, interimDir, interimEpub, runLog,
                   translateEntered, pendingError, backupEpub, NotRun>>

NextRun ==
    \/ PipelineStart
    \/ CreateStorageHandler
    \/ CreateStorageHandlerFails
    \/ UploadOk
    \/ UploadFails
    \/ SubmitOk
    \/ SubmitFails
    \/ Poll
    \/ OcrTextExtracted
    \/ OcrTextExtractionFails
    \/ BuildInterimEpub
    \/ BuildInterimEpubFails
    \/ OcrFinally
    \/ CleanerInit
    \/ CleanerInitFails
    \/ CleanEpubBegin
    \/ CleanEpubBeginFails
    \/ CleanSkipItem
    \/ CleanItem
    \/ CleanItemFails
    \/ CreateCleanedEpub
    \/ CreateCleanedEpubFails
    \/ FinishPipeline
    \/ FinishClean
    \/ EnterTranslation
    \/ TranslationStage

SpecRun == InitRun /\ [][NextRun]_vars

\* ============================================ AzureTranslator.preflight_check
\* target languages handed to preflight_check
PingLanguages == {"de", "hu", ""}

\* response.status_code
HttpStatuses == {200, 204, 404, 500}

\* what the body of the response is
PingBodies ==
    {"well_formed", "empty_list", "not_a_list", "first_not_a_dict",
     "no_translations", "not_json"}

\* the exception resp.json() raises on a body that is not JSON: the
\* JSONDecodeError of requests (a RequestException), or a plain ValueError
\* (older requests, or an injected session)
JsonErrors == {"RequestException", "ValueError"}

\* session.post raises instead of returning a response
ConnectionFailed == <<0, "none", "RequestException">>

PingResponses ==
    {<<st, body, je>> : st \in HttpStatuses, body \in PingBodies, je \in JsonErrors}
        \cup {ConnectionFailed}

\* params and headers of the request: to = (to_lang or "en"), body
\* [{"Text": "ping"}], the region header of _headers
PingRequest ==
    [text |-> <<"ping">>,
     to |-> IF pingToLang = "" THEN "en" ELSE pingToLang,
     region_header |-> azRegion]

\* what preflight_check does with the response: status test, resp.json(),
\* shape tests, the except clause for requests.RequestException
PingResult(response) ==
    IF response = ConnectionFailed THEN "TranslationError"
    ELSE IF response[1] >= 400 THEN "TranslationError"
    ELSE IF response[2] = "not_json"
         THEN IF response[3] = "RequestException" THEN "TranslationError"
              ELSE "ValueError"
    ELSE IF response[2] \in {"not_a_list", "empty_list", "first_not_a_dict"}
         THEN "TranslationError"
    ELSE IF response[2] = "no_translations" THEN "TranslationError"
    ELSE "returned"

InitPing ==
    /\ azRegion \in BOOLEAN
    /\ pingToLang \in PingLanguages
    /\ pingResponse = <<>>
    /\ httpPosts = <<>>
    /\ pingOutcome = "none"
    /\ pcPing = "call"
    /\ ChunkIdle
    /\ BatchIdle
    /\ CleanIdle
    /\ TransIdle
    /\ RunIdle
    /\ SpIdle
    /\ ShIdle
    /\ TtIdle
    /\ RcIdle
    /\ LogIdle
    /\ OcIdle
    /\ RtIdle
    /\ PfIdle

NotPing == <<chunkVars, batchVars, cleanVars, transVars, runVars,
    pfVars,
    rtVars,
    ocVars,
    logVars,
    rcVars,
    ttVars,
    shVars,
    spVars>>

\* self.session.post(url, params, json=body, headers, timeout)
PingPost ==
    /\ pcPing = "call"
    /\ \E response \in PingResponses : pingResponse' = response
    /\ httpPosts' = Append(httpPosts, PingRequest)
    /\ pcPing' = "responded"
    /\ UNCHANGED <<azRegion, pingToLang, pingOutcome, NotPing>>

\* the rest of preflight_check: it returns or raises
PingEvaluate ==
    /\ pcPing = "responded"
    /\ pingOutcome' = PingResult(pingResponse)
    /\ pcPing' = "done"
    /\ UNCHANGED <<azRegion, pingToLang, pingResponse, httpPosts, NotPing>>

NextPing == PingPost \/ PingEvaluate

SpecPing == InitPing /\ [][NextPing]_vars

\* ============================================================ PreflightChecker
PreflightCommands == {"ocr", "clean", "convert", "translate"}

\* how a check_* method ends: the service answers, a setting is missing, the
\* call fails, or (check_openai) the answer has no choices
CheckOutcomes(service) ==
    IF service = "openai" THEN {"ok", "missing", "error", "no_choices"}
    ELSE {"ok", "missing", "error"}

\* the _status calls of one check_* method
CheckEvents(service, outcome) ==
    IF outcome = "ok" THEN <<service \o "_start", service \o "_ok">>
    ELSE IF outcome = "no_choices"
         THEN <<service \o "_start", service \o "_failed", service \o "_failed">>
    ELSE <<service \o "_start", service \o "_failed">>

\* the exception a failing check_* method raises
CheckError(service, outcome) ==
    IF service = "translator" /\ outcome = "error" THEN "TranslationError"
    ELSE "ConfigError"

\* mutant of PreflightPlan: storage is checked for URL inputs as well
PreflightPlan_StorageAlways(cmd, local, wants) ==
    IF cmd = "ocr"
    THEN <<"storage", "cu">>
    ELSE IF cmd = "clean"
    THEN <<"openai">> \o (IF wants THEN <<"translator">> ELSE <<>>)
    ELSE IF cmd = "convert"
    THEN <<"storage", "cu", "openai">> \o (IF wants THEN <<"translator">> ELSE <<>>)
    ELSE <<"translator">>

\* the check_* calls of run_for_ocr, run_for_clean, run_for_convert and
\* run_for_translate, in the order they are written
PreflightPlan(cmd, local, wants) ==
    IF cmd = "ocr"
    THEN (IF local THEN <<"storage">> ELSE <<>>) \o <<"cu">>
    ELSE IF cmd = "clean"
    THEN <<"openai">> \o (IF wants THEN <<"translator">> ELSE <<>>)
    ELSE IF cmd = "convert"
    THEN (IF local THEN <<"storage">> ELSE <<>>) \o <<"cu", "openai">>
            \o (IF wants THEN <<"translator">> ELSE <<>>)
    ELSE <<"translator">>

\* PreflightChecker._status
PfStatus(log, events) == IF pfStatus THEN log \o events ELSE log

InitPf ==
    /\ pfCommand \in PreflightCommands
    /\ pfLocal \in BOOLEAN
    /\ pfWants \in BOOLEAN
    /\ pfStatus \in (IF pfCommand = "ocr" THEN {FALSE} ELSE BOOLEAN)
    /\ pfSkip \in BOOLEAN
    /\ pfRemaining = <<>>
    /\ pfChecked = <<>>
    /\ pfEvents = <<>>
    /\ pfError = "none"
    /\ cliReturn = "none"
    /\ stageStarted = FALSE
    /\ pcPf = "start"
    /\ ChunkIdle
    /\ BatchIdle
    /\ CleanIdle
    /\ TransIdle
    /\ RunIdle
    /\ SpIdle
    /\ ShIdle
    /\ TtIdle
    /\ RcIdle
    /\ LogIdle
    /\ OcIdle
    /\ RtIdle
    /\ PingIdle

NotPf == <<chunkVars, batchVars, cleanVars, transVars, runVars, pingVars,
    rtVars,
    ocVars,
    logVars,
    rcVars,
    ttVars,
    shVars,
    spVars>>

PfConfig == <<pfCommand, pfLocal, pfWants, pfStatus, pfSkip>>

\* skip_preflight: main calls the stage at once
PreflightSkipped ==
    /\ pcPf = "start"
    /\ pfSkip
    /\ stageStarted' = TRUE
    /\ pcPf' = "stage"
    /\ UNCHANGED <<PfConfig, pfRemaining, pfChecked, pfEvents, pfError, cliReturn, NotPf>>

\* run_for_*: _status("preflight_start")
PreflightStart ==
    /\ pcPf = "start"
    /\ ~pfSkip
    /\ pfEvents' = PfStatus(pfEvents, <<"preflight_start">>)
    /\ pfRemaining' = PreflightPlan(pfCommand, pfLocal, pfWants)
    /\ pcPf' = "checks"
    /\ UNCHANGED <<PfConfig, pfChecked, pfError, cliReturn, stageStarted, NotPf>>

\* one check_* method: its status events, and it returns or raises
Check(service) ==
    /\ pcPf = "checks"
    /\ pfRemaining # <<>>
    /\ Head(pfRemaining) = service
    /\ \E outcome \in CheckOutcomes(service) :
          /\ pfChecked' = Append(pfChecked, <<service, outcome>>)
          /\ pfEvents' = PfStatus(pfEvents, CheckEvents(service, outcome))
          /\ IF outcome = "ok"
             THEN /\ pfRemaining' = Tail(pfRemaining)
                  /\ pfError' = pfError
                  /\ pcPf' = "checks"
             ELSE /\ pfRemaining' = pfRemaining
                  /\ pfError' = CheckError(service, outcome)
                  /\ pcPf' = "raised"
    /\ UNCHANGED <<PfConfig, cliReturn, stageStarted, NotPf>>

CheckStorage == Check("storage")
CheckContentUnderstanding == Check("cu")
CheckOpenai == Check("openai")
CheckTranslator == Check("translator")

\* run_for_*: every check returned, _status("preflight_ok")
PreflightOk ==
    /\ pcPf = "checks"
    /\ pfRemaining = <<>>
    /\ pfEvents' = PfStatus(pfEvents, <<"preflight_ok">>)
    /\ pcPf' = "passed"
    /\ UNCHANGED <<PfConfig, pfRemaining, pfChecked, pfError, cliReturn, stageStarted, NotPf>>

\* main: except Exception: logger.exception(...); return 1
CliAbort ==
    /\ pcPf = "raised"
    /\ cliReturn' = "1"
    /\ pcPf' = "exit"
    /\ UNCHANGED <<PfConfig, pfRemaining, pfChecked, pfEvents, pfError, stageStarted, NotPf>>

\* main: the preflight block is over, the command's stage is called
CliProceed ==
    /\ pcPf = "passed"
    /\ stageStarted' = TRUE
    /\ pcPf' = "stage"
    /\ UNCHANGED <<PfConfig, pfRemaining, pfChecked, pfEvents, pfError, cliReturn, NotPf>>

NextPf ==
    \/ PreflightSkipped
    \/ PreflightStart
    \/ CheckStorage
    \/ CheckContentUnderstanding
    \/ CheckOpenai
    \/ CheckTranslator
    \/ PreflightOk
    \/ CliAbort
    \/ CliProceed

SpecPf == InitPf /\ [][NextPf]_vars

\* ================================================================ run_translate
\* number of translation requests a translate_epub call may issue
MaxRequests == 2

InitRt ==
    /\ rtToLang \in {"en", "de"}
    /\ rtStatus \in BOOLEAN
    /\ rtResponse = <<>>
    /\ rtPingCalls = 0
    /\ rtEpubReads = 0
    /\ rtEpubWrites = 0
    /\ rtRequests = 0
    /\ rtResult = "none"
    /\ pcRt = "start"
    /\ ChunkIdle
    /\ BatchIdle
    /\ CleanIdle
    /\ TransIdle
    /\ RunIdle
    /\ SpIdle
    /\ ShIdle
    /\ TtIdle
    /\ RcIdle
    /\ LogIdle
    /\ OcIdle
    /\ PingIdle
    /\ PfIdle

NotRt == <<chunkVars, batchVars, cleanVars, transVars, runVars, pingVars,
    pfVars,
    ocVars,
    logVars,
    rcVars,
    ttVars,
    shVars,
    spVars>>

\* mutant of RunTranslatePreflight: the outcome of the check is ignored
RunTranslatePreflight_IgnoresOutcome ==
    /\ pcRt = "start"
    /\ \E response \in PingResponses :
          /\ rtResponse' = response
          /\ pcRt' = "translate"
    /\ rtPingCalls' = rtPingCalls + 1
    /\ UNCHANGED <<rtToLang, rtStatus, rtEpubReads, rtEpubWrites, rtRequests,
                   rtResult, NotRt>>

\* the translator is built and its preflight_check is called, once
RunTranslatePreflight ==
    /\ pcRt = "start"
    /\ \E response \in PingResponses :
          /\ rtResponse' = response
          /\ pcRt' = IF PingResult(response) = "returned"
                     THEN "translate" ELSE "preflight_failed"
    /\ rtPingCalls' = rtPingCalls + 1
    /\ UNCHANGED <<rtToLang, rtStatus, rtEpubReads, rtEpubWrites, rtRequests,
                   rtResult, NotRt>>

\* the check failed: EPUBError("Translator preflight failed: ...")
RunTranslateAbort ==
    /\ pcRt = "preflight_failed"
    /\ rtResult' = "EPUBError: Translator preflight failed"
    /\ pcRt' = "raised"
    /\ UNCHANGED <<rtToLang, rtStatus, rtResponse, rtPingCalls, rtEpubReads,
                   rtEpubWrites, rtRequests, NotRt>>

\* EPUBTranslator(...).translate_epub(input_epub, output_epub, ...): the
\* input is read, requests are issued, the output is written unless the
\* stage fails
RunTranslateStage ==
    /\ pcRt = "translate"
    /\ rtEpubReads' = rtEpubReads + 1
    /\ \E n \in 0..MaxRequests, outcome \in {"ok", "TranslationError", "EPUBError"} :
          /\ rtRequests' = rtRequests + n
          /\ rtResult' = outcome
          /\ rtEpubWrites' = IF outcome = "ok" THEN rtEpubWrites + 1 ELSE rtEpubWrites
          /\ pcRt' = IF outcome = "ok" THEN "returned" ELSE "raised"
    /\ UNCHANGED <<rtToLang, rtStatus, rtResponse, rtPingCalls, NotRt>>

NextRt == RunTranslatePreflight \/ RunTranslateAbort \/ RunTranslateStage

SpecRt == InitRt /\ [][NextRt]_vars

\* ============================= EPUBOCRCleaner: construction and retry settings
\* the settings EPUBOCRCleaner needs
OpenAISettings == {"endpoint", "api_key", "api_version", "deployment"}

\* the settings openai.AzureOpenAI is constructed from
ClientSettings == {"endpoint", "api_key", "api_version"}

\* largest runtime_cfg.max_retries tried
MaxConfiguredRetries == 4

InitOc ==
    /\ ocInjected \in BOOLEAN
    /\ ocMissing \in SUBSET OpenAISettings
    /\ ocMaxRetries \in 1..MaxConfiguredRetries
    /\ ocResult = "none"
    /\ ocAttempts = 0
    /\ ocEntry = "none"
    /\ ocOutput = "none"
    /\ pcOc = "start"
    /\ ChunkIdle
    /\ BatchIdle
    /\ CleanIdle
    /\ TransIdle
    /\ RunIdle
    /\ SpIdle
    /\ ShIdle
    /\ TtIdle
    /\ RcIdle
    /\ LogIdle
    /\ PingIdle
    /\ PfIdle
    /\ RtIdle

NotOc == <<chunkVars, batchVars, cleanVars, transVars, runVars, pingVars,
    pfVars, rtVars,
    logVars,
    rcVars,
    ttVars,
    shVars,
    spVars>>

OcConfig == <<ocInjected, ocMissing, ocMaxRetries>>

\* azure_openai_cfg is None: the four environment variables are read and
\* LLMError is raised unless all are set
ConstructFromEnv ==
    /\ pcOc = "start"
    /\ ~ocInjected
    /\ IF ocMissing # {}
       THEN ocResult' = "LLMError" /\ pcOc' = "raised"
       ELSE ocResult' = "constructed" /\ pcOc' = "chunk"
    /\ UNCHANGED <<OcConfig, ocAttempts, ocEntry, ocOutput, NotOc>>

\* azure_openai_cfg is given: self.azure_cfg = azure_openai_cfg, no test;
\* openai.AzureOpenAI(...) raises its own error on a missing argument
\* unless it finds the value in its environment
ConstructFromConfig ==
    /\ pcOc = "start"
    /\ ocInjected
    /\ \E lib \in (IF ocMissing \cap ClientSettings # {}
                   THEN {"OpenAIError", "constructed"} ELSE {"constructed"}) :
          /\ ocResult' = lib
          /\ pcOc' = IF lib = "constructed" THEN "chunk" ELSE "raised"
    /\ UNCHANGED <<OcConfig, ocAttempts, ocEntry, ocOutput, NotOc>>

\* client.chat.completions.create(model=deployment or "", ...) can succeed
\* only for a deployment that is named
CallMaySucceed == "deployment" \notin ocMissing

\* clean_chunks: an attempt of "for attempt in range(max_retries)" whose
\* call returns
ChunkAttemptSucceeds ==
    /\ pcOc = "chunk"
    /\ ocAttempts < max_retries
    /\ CallMaySucceed
    /\ ocAttempts' = ocAttempts + 1
    /\ ocEntry' = "cleaned"
    /\ pcOc' = "assemble"
    /\ UNCHANGED <<OcConfig, ocResult, ocOutput, NotOc>>

\* an attempt whose call raises: retry, or on the last attempt
\* cleaned_chunks.append(chunk)
ChunkAttemptFails ==
    /\ pcOc = "chunk"
    /\ ocAttempts < max_retries
    /\ ocAttempts' = ocAttempts + 1
    /\ IF ocAttempts + 1 < max_retries
       THEN ocEntry' = ocEntry /\ pcOc' = "chunk"
       ELSE ocEntry' = "original" /\ pcOc' = "assemble"
    /\ UNCHANGED <<OcConfig, ocResult, ocOutput, NotOc>>

\* clean_text_with_llm returns the joined chunks; create_cleaned_epub
AssembleOutput ==
    /\ pcOc = "assemble"
    /\ ocOutput' = IF ocEntry = "cleaned" THEN "cleaned" ELSE "uncleaned"
    /\ pcOc' = "done"
    /\ UNCHANGED <<OcConfig, ocResult, ocAttempts, ocEntry, NotOc>>

NextOc ==
    \/ ConstructFromEnv
    \/ ConstructFromConfig
    \/ ChunkAttemptSucceeds
    \/ ChunkAttemptFails
    \/ AssembleOutput

SpecOc == InitOc /\ [][NextOc]_vars

\* ========================================================= the _status helpers
StatusWriters == {"pipeline", "reporter", "translator", "preflight"}

\* the events a stage hands to its helper on the way to success
StatusPlan(writer) ==
    IF writer = "pipeline"
    THEN <<"ocr_start", "content_understanding_submit",
           "content_understanding_result_received", "ocr_text_extracted",
           "build_epub_raw_start", "build_epub_raw_done">>
    ELSE IF writer = "reporter"
    THEN <<"stage", "chunking_done", "chunk_start", "llm_submit",
           "chunk_result", "summary">>
    ELSE IF writer = "translator"
    THEN <<"translate_start", "translate_item_start",
           "translate_item_chunking_done", "translate_batch_start",
           "translate_batch_done", "translate_item_done", "translate_done">>
    ELSE <<"preflight_start", "translator_start", "translator_ok", "preflight_ok">>

\* where a write of the status file can fail
WriteFailures == {"none", "mkdir", "open", "write"}

\* mutant of StatusWrite: the helper has no try/except
StatusWrite_Unguarded(writer, log, event, failure) ==
    IF failure = "none" \/ (writer = "reporter" /\ failure = "mkdir")
    THEN <<Append(log, event), FALSE>>
    ELSE <<log, TRUE>>

\* _status / _write: try: (mkdir,) open("a"), write; except Exception: pass.
\* The result is the file afterwards and whether the helper raised.
StatusWrite(writer, log, event, failure) ==
    IF failure = "none" \/ (writer = "reporter" /\ failure = "mkdir")
    THEN <<Append(log, event), FALSE>>
    ELSE <<log, FALSE>>

InitLog ==
    /\ lgWriter \in StatusWriters
    /\ lgStep = 0
    /\ refLog = <<>>
    /\ obsLog = <<>>
    /\ refResult = "none"
    /\ obsResult = "none"
    /\ obsSteps = 0
    /\ pcLog = "run"
    /\ ChunkIdle
    /\ BatchIdle
    /\ CleanIdle
    /\ TransIdle
    /\ RunIdle
    /\ SpIdle
    /\ ShIdle
    /\ TtIdle
    /\ RcIdle
    /\ PingIdle
    /\ PfIdle
    /\ RtIdle
    /\ OcIdle

NotLog == <<chunkVars, batchVars, cleanVars, transVars, runVars, pingVars,
    pfVars, rtVars, ocVars,
    rcVars,
    ttVars,
    shVars,
    spVars>>

\* what a step's work leaves as the stage's result
StepResult(writer, step, work) ==
    IF work = "fails" THEN "StageError"
    ELSE IF step = Len(StatusPlan(writer)) THEN "ok"
    ELSE "none"

\* one step of the stage in both runs: the helper is called with the next
\* event, then the step's work is done (the same service answer in both)
StatusStep(writer) ==
    /\ pcLog = "run"
    /\ lgWriter = writer
    /\ lgStep < Len(StatusPlan(writer))
    /\ \E failure \in WriteFailures, work \in {"ok", "fails"} :
          LET event == StatusPlan(writer)[lgStep + 1]
              written == StatusWrite(writer, obsLog, event, failure)
              outcome == StepResult(writer, lgStep + 1, work)
          IN  /\ refLog' = Append(refLog, event)
              /\ refResult' = outcome
              /\ IF obsResult # "none"
                 THEN UNCHANGED <<obsLog, obsResult, obsSteps>>
                 ELSE /\ obsLog' = written[1]
                      /\ obsSteps' = IF written[2] THEN obsSteps ELSE obsSteps + 1
                      /\ obsResult' = IF written[2] THEN "StatusWriteError"
                                      ELSE outcome
              /\ pcLog' = IF outcome = "none" THEN "run" ELSE "done"
    /\ lgStep' = lgStep + 1
    /\ UNCHANGED <<lgWriter, NotLog>>

PipelineStatusStep == StatusStep("pipeline")
ReporterStatusStep == StatusStep("reporter")
TranslatorStatusStep == StatusStep("translator")
PreflightStatusStep == StatusStep("preflight")

NextLog ==
    \/ PipelineStatusStep
    \/ ReporterStatusStep
    \/ TranslatorStatusStep
    \/ PreflightStatusStep

SpecLog == InitLog /\ [][NextLog]_vars

\* ============================================================= reconstruct_html
\* length of the flat texts tried
MaxFlatLen == 5

\* "W" stands for a run of 100 letters, "E" for the 32 characters "This
\* chapter appears to be empty"; every other character is itself
CharLen(c) == IF c = "W" THEN 100 ELSE IF c = "E" THEN 32 ELSE 1

FlatAlphabet == Alphabet \cup {"W"}

FlatTexts == UNION {[1..k -> FlatAlphabet] : k \in 0..MaxFlatLen}

\* len(paragraph)
RECURSIVE TextLen(_)
TextLen(t) == IF t = <<>> THEN 0 ELSE CharLen(Head(t)) + TextLen(Tail(t))

\* the length below which a paragraph may be a heading
heading_limit == 100

\* mutant of PlaceholderText: the placeholder sentence has no full stop
PlaceholderText_NoFullStop == <<"E">>

\* the paragraph of the "empty chapter" document
PlaceholderText == <<"E", ".">>

\* mutant of IsHeading: a paragraph of exactly 100 characters is a heading
IsHeading_AtMostLimit(paragraph) ==
    TextLen(paragraph) <= heading_limit /\ paragraph[Len(paragraph)] # "."

\* len(paragraph) < 100 and not paragraph.endswith(".")
IsHeading(paragraph) ==
    TextLen(paragraph) < heading_limit /\ paragraph[Len(paragraph)] # "."

\* <h2>paragraph</h2> or <p>paragraph</p>
Element(paragraph) ==
    <<IF IsHeading(paragraph) THEN "h2" ELSE "p", paragraph>>

RECURSIVE Elements(_)
Elements(ps) ==
    IF ps = <<>> THEN <<>> ELSE <<Element(Head(ps))>> \o Elements(Tail(ps))

\* the body elements of reconstruct_html(cleaned_text, original_html)
reconstruct_html(t) ==
    IF Strip(t) = <<>>
    THEN <<<<"p", PlaceholderText>>>>
    ELSE Elements(IF TrimmedParagraphs(t) = <<>> THEN <<Strip(t)>>
                  ELSE TrimmedParagraphs(t))

\* the paragraphs of a reconstructed document, joined with the separator
RECURSIVE ElementTexts(_)
ElementTexts(es) ==
    IF es = <<>> THEN <<>> ELSE <<Head(es)[2]>> \o ElementTexts(Tail(es))

InitRc ==
    /\ rcText \in FlatTexts
    /\ rcFirst = <<>>
    /\ rcSecond = <<>>
    /\ rcBuilt = <<>>
    /\ pcBuilder = "start"
    /\ pcRc = "start"
    /\ ChunkIdle
    /\ BatchIdle
    /\ CleanIdle
    /\ TransIdle
    /\ RunIdle
    /\ SpIdle
    /\ ShIdle
    /\ TtIdle
    /\ PingIdle
    /\ PfIdle
    /\ RtIdle
    /\ OcIdle
    /\ LogIdle

NotRc == <<chunkVars, batchVars, cleanVars, transVars, runVars, pingVars,
    pfVars, rtVars, ocVars, logVars,
    ttVars,
    shVars,
    spVars>>

\* reconstruct_html(cleaned_text, original_html)
ReconstructCall ==
    /\ pcRc = "start"
    /\ rcFirst' = reconstruct_html(rcText)
    /\ pcRc' = "once"
    /\ UNCHANGED <<rcText, rcSecond, rcBuilt, pcBuilder, NotRc>>

\* reconstruct_html("\n\n".join(paragraphs of the first document), ...)
ReconstructAgain ==
    /\ pcRc = "once"
    /\ rcSecond' = reconstruct_html(Join(ElementTexts(rcFirst), ParaSep))
    /\ pcRc' = "twice"
    /\ UNCHANGED <<rcText, rcFirst, rcBuilt, pcBuilder, NotRc>>

\* EPUBBuilder.add_chapter(title, content, file_name): the body elements
add_chapter(content) == Elements(TrimmedParagraphs(content))

\* builder.add_chapter(...) on the same text
AddChapterCall ==
    /\ pcBuilder = "start"
    /\ rcBuilt' = add_chapter(rcText)
    /\ pcBuilder' = "built"
    /\ UNCHANGED <<rcText, rcFirst, rcSecond, pcRc, NotRc>>

NextRc == ReconstructCall \/ ReconstructAgain \/ AddChapterCall

SpecRc == InitRc /\ [][NextRc]_vars

\* ================================================ AzureTranslator.translate_text
\* number of segments handed to translate_text
MaxSegments == 3

\* largest MAX_DOCS_PER_REQUEST tried
MaxDocsTried == 2

\* largest max_retries a translator is constructed with
MaxTranslatorRetries == 3

\* AzureTranslator.MAX_CHARS_PER_REQUEST
MAX_CHARS_PER_REQUEST == 45000

SegmentTexts == {<<"a">>, <<"b">>}

SegmentLists == UNION {[1..k -> SegmentTexts] : k \in 0..MaxSegments}

TargetLanguages == {"hu", "h"}

\* a post that raised, answered with a status of 400 or more, or whose body
\* is not a list of objects
ServiceError == <<"error">>

\* the bodies of a 2xx answer to a request of n items: a list of up to n + 1
\* items, each with a translation ("text") or with none ("none")
ResponseBodies(n) == UNION {[1..k -> {"text", "none"}] : k \in 0..(n + 1)}

Responses(n) == {ServiceError} \cup ResponseBodies(n)

\* translations[0].get("text") of item i of the answer to batch: the
\* service's rendering of the i-th text sent, or of nothing that was sent
ServiceText(batch, i) ==
    IF i <= Len(batch) THEN Translation(batch[i]) ELSE <<"z">>

\* batch[i] raises IndexError for an item beyond the batch that has no
\* translations
BatchOutRaises(batch, data) ==
    \E i \in 1..Len(data) : data[i] = "none" /\ i > Len(batch)

\* batch_out after "for i, item in enumerate(data)"
BatchOut(batch, data) ==
    [i \in 1..Len(data) |->
        IF data[i] = "none" THEN batch[i] ELSE Strip(ServiceText(batch, i))]

\* the attempt raises inside the try block
AttemptRaises(batch, response) ==
    response = ServiceError \/ BatchOutRaises(batch, response)

\* retry_delay_s of the constructor
retry_delay_s == 2

\* backoff = self.retry_delay_s * attempt
Backoff(attemptNo) == retry_delay_s * attemptNo

\* "Ensure alignment": trim, or extend with segments[len(translated):]
AlignToSegments(out, segs) ==
    IF Len(out) = Len(segs) THEN out
    ELSE IF Len(out) > Len(segs)
    THEN Take(out, Len(segs))
    ELSE out \o Drop(segs, Len(out))

InitTt ==
    /\ ttSegments \in SegmentLists
    /\ ttToLang \in TargetLanguages
    /\ ttLimitDocs \in 1..MaxDocsTried
    /\ ttMaxRetries \in 1..MaxTranslatorRetries
    /\ ttBatches = <<>>
    /\ ttBatchIdx = 0
    /\ ttAttempt = 0
    /\ ttTranslated = <<>>
    /\ ttPosts = <<>>
    /\ ttSleeps = <<>>
    /\ ttFailed = {}
    /\ ttResult = "none"
    /\ pcTt = "start"
    /\ ChunkIdle
    /\ BatchIdle
    /\ CleanIdle
    /\ TransIdle
    /\ RunIdle
    /\ SpIdle
    /\ ShIdle
    /\ PingIdle
    /\ PfIdle
    /\ RtIdle
    /\ OcIdle
    /\ LogIdle
    /\ RcIdle

NotTt == <<chunkVars, batchVars, cleanVars, transVars, runVars, pingVars,
    pfVars, rtVars, ocVars, logVars, rcVars,
    shVars,
    spVars>>

TtConfig == <<ttSegments, ttToLang, ttLimitDocs, ttMaxRetries>>

\* if not segments: return []
TranslateNothing ==
    /\ pcTt = "start"
    /\ ttSegments = <<>>
    /\ ttResult' = <<>>
    /\ pcTt' = "returned"
    /\ UNCHANGED <<TtConfig, ttBatches, ttBatchIdx, ttAttempt, ttTranslated,
                   ttPosts, ttSleeps, ttFailed, NotTt>>

\* if not to_lang or len(to_lang) < 2: raise TranslationError
RejectLanguage ==
    /\ pcTt = "start"
    /\ ttSegments # <<>>
    /\ ttToLang = "h"
    /\ ttResult' = "TranslationError"
    /\ pcTt' = "returned"
    /\ UNCHANGED <<TtConfig, ttBatches, ttBatchIdx, ttAttempt, ttTranslated,
                   ttPosts, ttSleeps, ttFailed, NotTt>>

\* translated = []; the first batch of _batch_segments(segments)
TranslateTextStart ==
    /\ pcTt = "start"
    /\ ttSegments # <<>>
    /\ ttToLang # "h"
    /\ ttBatches' = batch_segments(ttSegments, ttLimitDocs, MAX_CHARS_PER_REQUEST)
    /\ ttPosts' = [k \in 1..Len(ttBatches') |-> 0]
    /\ ttSleeps' = [k \in 1..Len(ttBatches') |-> <<>>]
    /\ ttBatchIdx' = 1
    /\ ttAttempt' = 0
    /\ pcTt' = "batch"
    /\ UNCHANGED <<TtConfig, ttTranslated, ttFailed, ttResult, NotTt>>

\* the for loop moves to the next batch, or ends
NextBatchPc == IF ttBatchIdx < Len(ttBatches) THEN "batch" ELSE "align"

\* an attempt whose answer is mapped: translated.extend(batch_out); break
BatchPostSucceeds ==
    /\ pcTt = "batch"
    /\ ttAttempt < ttMaxRetries
    /\ \E response \in Responses(Len(ttBatches[ttBatchIdx])) :
          /\ ~AttemptRaises(ttBatches[ttBatchIdx], response)
          /\ ttTranslated' = ttTranslated \o BatchOut(ttBatches[ttBatchIdx], response)
    /\ ttPosts' = [ttPosts EXCEPT ![ttBatchIdx] = @ + 1]
    /\ ttBatchIdx' = IF NextBatchPc = "batch" THEN ttBatchIdx + 1 ELSE ttBatchIdx
    /\ ttAttempt' = 0
    /\ pcTt' = NextBatchPc
    /\ UNCHANGED <<TtConfig, ttBatches, ttSleeps, ttFailed, ttResult, NotTt>>

\* an attempt that raises with attempts left: sleep and try again
BatchPostRetried ==
    /\ pcTt = "batch"
    /\ ttAttempt + 1 < ttMaxRetries
    /\ \E response \in Responses(Len(ttBatches[ttBatchIdx])) :
          AttemptRaises(ttBatches[ttBatchIdx], response)
    /\ ttPosts' = [ttPosts EXCEPT ![ttBatchIdx] = @ + 1]
    /\ ttAttempt' = ttAttempt + 1
    /\ ttSleeps' = [ttSleeps EXCEPT ![ttBatchIdx] = Append(@, Backoff(ttAttempt + 1))]
    /\ UNCHANGED <<TtConfig, ttBatches, ttBatchIdx, ttTranslated, ttFailed,
                   ttResult, pcTt, NotTt>>

\* the last attempt raises: translated.extend(batch); break
BatchPostGivesUp ==
    /\ pcTt = "batch"
    /\ ttAttempt + 1 = ttMaxRetries
    /\ \E response \in Responses(Len(ttBatches[ttBatchIdx])) :
          AttemptRaises(ttBatches[ttBatchIdx], response)
    /\ ttPosts' = [ttPosts EXCEPT ![ttBatchIdx] = @ + 1]
    /\ ttTranslated' = ttTranslated \o ttBatches[ttBatchIdx]
    /\ ttFailed' = ttFailed \cup {ttBatchIdx}
    /\ ttBatchIdx' = IF NextBatchPc = "batch" THEN ttBatchIdx + 1 ELSE ttBatchIdx
    /\ ttAttempt' = 0
    /\ pcTt' = NextBatchPc
    /\ UNCHANGED <<TtConfig, ttBatches, ttSleeps, ttResult, NotTt>>

\* the alignment patch, and return translated
AlignAndReturn ==
    /\ pcTt = "align"
    /\ ttResult' = AlignToSegments(ttTranslated, ttSegments)
    /\ pcTt' = "returned"
    /\ UNCHANGED <<TtConfig, ttBatches, ttBatchIdx, ttAttempt, ttTranslated,
                   ttPosts, ttSleeps, ttFailed, NotTt>>

NextTt ==
    \/ TranslateNothing
    \/ RejectLanguage
    \/ TranslateTextStart
    \/ BatchPostSucceeds
    \/ BatchPostRetried
    \/ BatchPostGivesUp
    \/ AlignAndReturn

SpecTt == InitTt /\ [][NextTt]_vars

\* ============================================================ AzureStorageHandler
\* seconds the clock may advance
MaxClock == 1

\* upload_pdf calls made by the two handlers together
MaxUploads == 2

\* two pipeline runs, each with its own handler
Handlers == {1, 2}

\* local paths handed to upload_pdf
UploadFiles == {"in/doc.pdf", "out/doc.pdf", "b.pdf"}

\* Path(file_path).name with every character that is not alphanumeric or one
\* of "._-" dropped
SafeName(file) == IF file = "b.pdf" THEN "b.pdf" ELSE "doc.pdf"

\* _generate_unique_blob_name: f"{timestamp}_{safe_name}", the timestamp in
\* whole seconds
generate_unique_blob_name(file, now) == <<now, SafeName(file)>>

BlobNames == {<<t, n>> : t \in 0..MaxClock, n \in {"doc.pdf", "b.pdf"}}

\* no blob under that name
Absent == <<0, 0>>

\* how an upload_pdf call goes: the file is missing or too large; upload_blob
\* raises with nothing stored; upload_blob raises after the blob was stored;
\* _generate_sas_url raises; the URL is returned
UploadOutcomes ==
    {"rejected", "upload_raises", "stored_then_raises", "sas_raises", "returned"}

\* list.remove(x)
RECURSIVE RemoveFirst(_, _)
RemoveFirst(seq, x) ==
    IF seq = <<>> THEN <<>>
    ELSE IF Head(seq) = x THEN Tail(seq)
    ELSE <<Head(seq)>> \o RemoveFirst(Tail(seq), x)

InSeq(seq, x) == \E i \in 1..Len(seq) : seq[i] = x

\* the handler's view while a call runs
HandlerState(store, tracked, live, ret) ==
    [store |-> store, tracked |-> tracked, live |-> live, ret |-> ret]

\* delete_blob(blob_name): blob_client.delete_blob() raises when the service
\* fails or the blob does not exist; on success the name is removed from
\* uploaded_blobs
delete_blob(st, name, serviceOk) ==
    IF serviceOk /\ st.store[name] # Absent
    THEN HandlerState([st.store EXCEPT ![name] = Absent],
                      IF InSeq(st.tracked, name)
                      THEN RemoveFirst(st.tracked, name) ELSE st.tracked,
                      st.live \ {name}, TRUE)
    ELSE HandlerState(st.store, st.tracked, st.live, FALSE)

\* "for blob_name in self.uploaded_blobs.copy()": the state after the loop,
\* the two counters and the names whose deletion failed
RECURSIVE CleanupLoop(_, _, _, _)
CleanupLoop(acc, copy, k, failing) ==
    IF k > Len(copy) THEN acc
    ELSE LET st == delete_blob(acc.st, copy[k], k \notin failing)
         IN  CleanupLoop(
                 [st |-> st,
                  successful |-> acc.successful + (IF st.ret THEN 1 ELSE 0),
                  failed |-> acc.failed + (IF st.ret THEN 0 ELSE 1),
                  failedNames |-> IF st.ret THEN acc.failedNames
                                  ELSE Append(acc.failedNames, copy[k])],
                 copy, k + 1, failing)

LastCall(op, h, name, outcome, deleteTried, counts, failedNames) ==
    [op |-> op, h |-> h, name |-> name, outcome |-> outcome,
     deleteTried |-> deleteTried, counts |-> counts, failedNames |-> failedNames]

NoCall == LastCall("none", 0, Absent, "none", FALSE, <<0, 0, 0>>, <<>>)

InitSh ==
    /\ shClock = 0
    /\ shStore = [n \in BlobNames |-> Absent]
    /\ shTracked = [h \in Handlers |-> <<>>]
    /\ shLive = [h \in Handlers |-> {}]
    /\ shMine = [h \in Handlers |-> {}]
    /\ shUploads = [h \in Handlers |-> 0]
    /\ shReading = [h \in Handlers |-> {}]
    /\ shClobbered = FALSE
    /\ shLast = NoCall
    /\ ChunkIdle
    /\ BatchIdle
    /\ CleanIdle
    /\ TransIdle
    /\ RunIdle
    /\ SpIdle
    /\ PingIdle
    /\ PfIdle
    /\ RtIdle
    /\ OcIdle
    /\ LogIdle
    /\ RcIdle
    /\ TtIdle

NotSh == <<chunkVars, batchVars, cleanVars, transVars, runVars, pingVars,
    pfVars, rtVars, ocVars, logVars, rcVars, ttVars,
    spVars>>

\* a second passes
ClockTick ==
    /\ shClock < MaxClock
    /\ shClock' = shClock + 1
    /\ UNCHANGED <<shStore, shTracked, shLive, shMine, shUploads, shReading,
                   shClobbered, shLast, NotSh>>

\* the state of handler h as a call starts
Entering(h) == HandlerState(shStore, shTracked[h], shLive[h], FALSE)

\* upload_blob(data, overwrite=True) under name, by upload id
Stored(st, name, id) ==
    HandlerState([st.store EXCEPT ![name] = id], st.tracked, st.live, st.ret)

\* self.uploaded_blobs.append(blob_name)
Tracked(st, name) ==
    HandlerState(st.store, Append(st.tracked, name), st.live \cup {name}, st.ret)

\* upload_pdf(local_path) up to the return or the except clause
UploadBody(st, name, id, outcome) ==
    CASE outcome \in {"rejected", "upload_raises"} -> st
      [] outcome = "stored_then_raises" -> Stored(st, name, id)
      [] OTHER -> Tracked(Stored(st, name, id), name)

\* the except clause: try: self.delete_blob(blob_name)
UploadEnd(st, name, outcome, serviceOk) ==
    IF outcome \in {"upload_raises", "stored_then_raises", "sas_raises"}
    THEN delete_blob(st, name, serviceOk)
    ELSE st

\* AzureStorageHandler.upload_pdf
UploadPdf(h) ==
    /\ shUploads[1] + shUploads[2] < MaxUploads
    /\ \E file \in UploadFiles, outcome \in UploadOutcomes, serviceOk \in BOOLEAN :
          LET name == generate_unique_blob_name(file, shClock)
              id == <<h, shUploads[h] + 1>>
              st == UploadEnd(UploadBody(Entering(h), name, id, outcome),
                              name, outcome, serviceOk)
          IN  /\ shStore' = st.store
              /\ shTracked' = [shTracked EXCEPT ![h] = st.tracked]
              /\ shLive' = [shLive EXCEPT ![h] = st.live]
              /\ shMine' = [shMine EXCEPT ![h] =
                               IF outcome = "rejected" THEN @ ELSE @ \cup {name}]
              /\ shReading' = [shReading EXCEPT ![h] =
                                  IF outcome = "returned"
                                  THEN @ \cup {<<name, id>>} ELSE @]
              /\ shClobbered' =
                    (shClobbered
                       \/ (/\ outcome \notin {"rejected", "upload_raises"}
                           /\ shStore[name] # Absent
                           /\ shStore[name][1] # h))
              /\ shLast' = LastCall("upload_pdf", h, name, outcome,
                                    outcome \notin {"rejected", "returned"},
                                    <<0, 0, 0>>, <<>>)
    /\ shUploads' = [shUploads EXCEPT ![h] = @ + 1]
    /\ UNCHANGED <<shClock, NotSh>>

\* the OCR service has read the blobs of run h
OcrFinished(h) ==
    /\ shReading[h] # {}
    /\ shReading' = [shReading EXCEPT ![h] = {}]
    /\ UNCHANGED <<shClock, shStore, shTracked, shLive, shMine, shUploads,
                   shClobbered, shLast, NotSh>>

\* AzureStorageHandler.delete_blob, called with a name this handler generated
DeleteBlob(h) ==
    /\ shReading[h] = {}
    /\ \E name \in shMine[h], serviceOk \in BOOLEAN :
          LET st == delete_blob(Entering(h), name, serviceOk)
          IN  /\ shStore' = st.store
              /\ shTracked' = [shTracked EXCEPT ![h] = st.tracked]
              /\ shLive' = [shLive EXCEPT ![h] = st.live]
              /\ shLast' = LastCall("delete_blob", h, name,
                                    IF st.ret THEN "True" ELSE "False",
                                    TRUE, <<0, 0, 0>>, <<>>)
    /\ UNCHANGED <<shClock, shMine, shUploads, shReading, shClobbered, NotSh>>

\* AzureStorageHandler.cleanup_all
CleanupAll(h) ==
    /\ shReading[h] = {}
    /\ \E failing \in SUBSET (1..Len(shTracked[h])) :
          LET copy == shTracked[h]
              done == CleanupLoop([st |-> Entering(h), successful |-> 0,
                                   failed |-> 0, failedNames |-> <<>>],
                                  copy, 1, failing)
          IN  /\ shStore' = done.st.store
              /\ shTracked' = [shTracked EXCEPT ![h] = done.st.tracked]
              /\ shLive' = [shLive EXCEPT ![h] = done.st.live]
              /\ shLast' = LastCall("cleanup_all", h, Absent, "returned",
                                    copy # <<>>,
                                    <<done.successful, done.failed, Len(copy)>>,
                                    done.failedNames)
    /\ UNCHANGED <<shClock, shMine, shUploads, shReading, shClobbered, NotSh>>

NextSh ==
    \/ ClockTick
    \/ \E h \in Handlers : UploadPdf(h)
    \/ \E h \in Handlers : OcrFinished(h)
    \/ \E h \in Handlers : DeleteBlob(h)
    \/ \E h \in Handlers : CleanupAll(h)

SpecSh == InitSh /\ [][NextSh]_vars

\* ================================================== _split_paragraphs on its own
\* length of the texts handed to _split_paragraphs
MaxSplitLen == 6

InitSp ==
    /\ spText \in Texts(MaxSplitLen)
    /\ spParas = <<>>
    /\ spFallbackReached = FALSE
    /\ spFallback = <<>>
    /\ pcSp = "start"
    /\ ChunkIdle
    /\ BatchIdle
    /\ CleanIdle
    /\ TransIdle
    /\ RunIdle
    /\ PingIdle
    /\ PfIdle
    /\ RtIdle
    /\ OcIdle
    /\ LogIdle
    /\ RcIdle
    /\ TtIdle
    /\ ShIdle

NotSp == <<chunkVars, batchVars, cleanVars, transVars, runVars, pingVars,
    pfVars, rtVars, ocVars, logVars, rcVars, ttVars, shVars>>

\* self._split_paragraphs(text)
SplitParagraphsCall ==
    /\ pcSp = "start"
    /\ spParas' = split_paragraphs(spText)
    /\ spFallbackReached' = FallbackReached(spText)
    /\ spFallback' = IF FallbackReached(spText) THEN FallbackParagraphs(spText)
                     ELSE <<>>
    /\ pcSp' = "done"
    /\ UNCHANGED <<spText, NotSp>>

NextSp == SplitParagraphsCall

SpecSp == InitSp /\ [][NextSp]_vars

\* ------------------------------------------------------ SpecChunk behaviour
InitChunk ==
    /\ text \in Texts(MaxTextLen)
    /\ maxTokens \in 0..MaxTokens
    /\ chunks = <<>>
    /\ pcChunk = "input"
    /\ BatchIdle
    /\ CleanIdle
    /\ TransIdle
    /\ RunIdle
    /\ BoundaryIdle

ChunkTextCall ==
    /\ pcChunk = "input"
    /\ chunks' = chunk_text(text, maxTokens)
    /\ pcChunk' = "done"
    /\ UNCHANGED <<text, maxTokens, batchVars, cleanVars, transVars, runVars, boundaryVars>>

NextChunk == ChunkTextCall

SpecChunk == InitChunk /\ [][NextChunk]_vars

\* ------------------------------------------------- properties of chunk_text
RECURSIVE Flatten(_)
Flatten(ss) == IF ss = <<>> THEN <<>> ELSE Head(ss) \o Flatten(Tail(ss))

\* the non-whitespace characters of s, in order
NonWs(s) == SelectSeq(s, LAMBDA c : c \notin Whitespace)

RECURSIVE ParagraphsOfEach(_)
ParagraphsOfEach(cs) ==
    IF cs = <<>> THEN <<>>
    ELSE TrimmedParagraphs(Head(cs)) \o ParagraphsOfEach(Tail(cs))

ChunkDone == pcChunk = "done"

\* the paragraphs chunk_text iterates over, and their sentences
InputParagraphs == SplitBlank(text)
HasLongParagraph ==
    \E i \in 1..Len(InputParagraphs) : Len(InputParagraphs[i]) > MaxChars(maxTokens)
HasLongSentence ==
    \E i \in 1..Len(InputParagraphs) :
        /\ Len(InputParagraphs[i]) > MaxChars(maxTokens)
        /\ \E j \in 1..Len(SplitSentences(InputParagraphs[i])) :
              Len(SplitSentences(InputParagraphs[i])[j]) > MaxChars(maxTokens)

\* C5: for every text and every limit N = 2*max_tokens_per_chunk >= 1, every
\* chunk returned by chunk_text has at most N characters.
C5_ChunkBound ==
    (ChunkDone /\ MaxChars(maxTokens) >= 1)
        => \A i \in 1..Len(chunks) : Len(chunks[i]) <= MaxChars(maxTokens)

\* C6: the non-whitespace characters of the returned chunks, concatenated in
\* chunk order, are the non-whitespace characters of the input, in order.
C6_NonWhitespacePreserved ==
    ChunkDone => NonWs(Flatten(chunks)) = NonWs(text)

\* C6 witness: the first paragraph is over-long and is split into several
\* sentences, the first of which is over-long and therefore force-split
C6_Witness ==
    /\ ChunkDone
    /\ MaxChars(maxTokens) >= 1
    /\ Len(InputParagraphs[1]) > MaxChars(maxTokens)
    /\ Len(SplitSentences(InputParagraphs[1])) >= 2
    /\ Len(SplitSentences(InputParagraphs[1])[1]) > MaxChars(maxTokens)
    /\ Len(chunks) >= 3
    /\ chunks[1] = Take(text, MaxChars(maxTokens))

\* C7: when no paragraph (piece between blank-line separators), hence no
\* sentence, is longer than N, the trimmed non-empty paragraphs of the chunks
\* joined with the paragraph separator are those of the input, in order, and
\* every paragraph lies within one chunk.
C7_RoundTrip ==
    (ChunkDone /\ ~HasLongParagraph)
        => /\ TrimmedParagraphs(Join(chunks, ParaSep)) = TrimmedParagraphs(text)
           /\ ParagraphsOfEach(chunks) = TrimmedParagraphs(text)

\* C7 witness: several paragraphs, packed into more than one chunk, one chunk
\* holding two paragraphs
C7_Witness ==
    /\ ChunkDone
    /\ ~HasLongParagraph
    /\ Len(chunks) >= 2
    /\ \E i \in 1..Len(chunks) : Len(TrimmedParagraphs(chunks[i])) >= 2
    /\ Len(TrimmedParagraphs(text)) >= 3

\* ---------------------------------------------- properties of the batchers
BatchDone == pcBatch = "done"

RECURSIVE TotalChars(_)
TotalChars(b) == IF b = <<>> THEN 0 ELSE Len(Head(b)) + TotalChars(Tail(b))

WithinLimits(b) == Len(b) <= maxParas /\ TotalChars(b) <= maxBatchChars

\* C8: flattening the batches of _batch_paragraphs, and those of
\* _batch_segments, in order gives back the input list exactly, and no
\* batch is empty.
C8_BatchesPartitionInput ==
    BatchDone =>
        /\ Flatten(batches) = paragraphs
        /\ \A i \in 1..Len(batches) : batches[i] # <<>>
        /\ Flatten(segBatches) = paragraphs
        /\ \A i \in 1..Len(segBatches) : segBatches[i] # <<>>

\* C8 witness: three paragraphs packed into at least two batches, one batch
\* closed by the count limit or the character limit with a paragraph carried
C8_Witness ==
    /\ BatchDone
    /\ Len(paragraphs) = 3
    /\ \A i \in 1..3 : paragraphs[i] # <<>>
    /\ paragraphs[1] # paragraphs[2]
    /\ Len(batches) = 2
    /\ Len(batches[1]) = 2
    /\ Len(segBatches) = 2

CleanReturned == pcClean = "returned"

\* the texts the service returned for chunk i, as clean_chunks stores them
ReturnedFor(i) ==
    {CleanedText(llmCalls[i][k]) :
        k \in {j \in 1..Len(llmCalls[i]) : llmCalls[i][j] # CallError}}

\* every service call made for chunk i raised, max_retries times
EveryAttemptFailed(i) ==
    /\ Len(llmCalls[i]) = max_retries
    /\ \A k \in 1..max_retries : llmCalls[i][k] = CallError

\* C3: whatever succeeds or fails (calls, reporter callbacks, debug-artifact
\* writes), the list clean_chunks returns has exactly one entry per input
\* chunk, and entry i is chunk i's cleaned text or chunk i's original text.
C3_OneEntryPerChunk ==
    CleanReturned =>
        /\ Len(cleaned) = Len(ccChunks)
        /\ \A i \in 1..Len(ccChunks) :
              cleaned[i] = ccChunks[i] \/ cleaned[i] \in ReturnedFor(i)

\* C4 (under SpecCleanStage): if every attempt for one chunk fails, the stage
\* does not raise, and in
\* its result that chunk's original text is at that chunk's position while
\* every other chunk's entry is what the service returned for it.
C4_DegradeToOriginal ==
    \A i \in 1..Len(ccChunks) :
        (EveryAttemptFailed(i) /\ pcClean \in {"returned", "raised"}) =>
            /\ pcClean = "returned"
            /\ Len(cleaned) = Len(ccChunks)
            /\ cleaned[i] = ccChunks[i]
            /\ \A j \in 1..Len(ccChunks) :
                  (j # i /\ ~EveryAttemptFailed(j)) => cleaned[j] \in ReturnedFor(j)


\* ------------------------------------------------- claims on translate_epub
RECURSIVE SumOver(_, _)
SumOver(f(_), seq) ==
    IF seq = <<>> THEN 0 ELSE f(Head(seq)) + SumOver(f, Tail(seq))

EligibleItems == SelectSeq(docItems, Eligible)

ItemParagraphCount(item) == Len(split_paragraphs(item.content))
ItemBatchCount(item) ==
    Len(batch_paragraphs(split_paragraphs(item.content), cfgMaxParas,
                         max_chars_per_batch))
EntryChanged(entry) == Diffs(entry.source, entry.translated)

\* the whole-document statistics, recomputed from the document and from what
\* the provider returned
DocParagraphs == SumOver(ItemParagraphCount, EligibleItems)
DocBatches == SumOver(ItemBatchCount, EligibleItems)
DocChanged == SumOver(EntryChanged, translatedContent)

\* changed / total <= min_changed_ratio, the ratio being 0 when total is 0
RatioAtMostThreshold(changed, total) ==
    IF total = 0
    THEN 0 <= minRatio[1]
    ELSE changed * minRatio[2] <= minRatio[1] * total

TranslateEnded == pcTrans \in {"returned", "raised"}
GateEvaluated == TranslateEnded /\ itemIdx > Len(docItems)

StatusEvents == {statusLog[i] : i \in 1..Len(statusLog)}

C10_OneOutputPerParagraph ==
    \A k \in 1..Len(translatedContent) :
        LET e == translatedContent[k]
        IN  /\ Len(e.translated) = Len(e.source)
            /\ \A i \in 1..Len(e.source) : e.translated[i] \in Renderings(e.source[i])


\* ------------------------------------------- claims on the pipeline stages
\* an item the stages must leave out: a navigation artifact by name, or no
\* text at all
ExcludedName(name) ==
    name \in {"nav.xhtml", "toc.ncx", "content.opf", "Text/Navigation.xhtml"}
BlankText(content) == \A i \in 1..Len(content) : content[i] \in {" ", "\n"}
ExcludedItem(item) == ExcludedName(item.file_name) \/ BlankText(item.content)
KeptItem(item) == ~ExcludedItem(item)

RECURSIVE FileNames(_)
FileNames(items) ==
    IF items = <<>> THEN <<>> ELSE <<Head(items).file_name>> \o FileNames(Tail(items))

KeptNames(items) == FileNames(SelectSeq(items, KeptItem))

CleanLoopFinished ==
    /\ pcRun \in {"ce_items", "cleanup_returned", "translating", "done", "failed"}
    /\ epubIdx > Len(epubItems)

IsPrefixOf(a, b) == Len(a) <= Len(b) /\ SubSeq(b, 1, Len(a)) = a

\* C12: the status log is append-only across one run: every step leaves the
\* events written so far in place.
C12_StatusLogAppendOnly == [][IsPrefixOf(runLog, runLog')]_vars

LocalInput == command = "convert" /\ inputPath[1] \notin {"http://", "https://"}
UrlInput == command = "convert" /\ inputPath[1] \in {"http://", "https://"}

\* C13: after a successful full-pipeline run, not in debug mode, on a local
\* file, the interim EPUB is gone and deletion was performed for every blob
\* the run uploaded.
C13_TeardownAfterSuccess ==
    (LocalInput /\ pcRun = "done" /\ runResult = "ok" /\ ~debug) =>
        /\ interimEpub = "removed"
        /\ storedBlobs \cup uploadedBlobs \subseteq deleteAttempts
        /\ BlobName \in deleteAttempts

\* C14: when a step after a successful upload fails and cleanup-on-failure
\* is on and the run is not in debug mode, deletion of every uploaded blob
\* has been attempted when the error reaches the caller, and the caller sees
\* the originating error even when the deletion failed.
C14_BlobCleanupOnFailure ==
    (pcRun = "failed" /\ pdfUrl = SasUrl /\ cleanupOnFailure /\ ~debug) =>
        /\ storedBlobs \cup uploadedBlobs \subseteq deleteAttempts
        /\ BlobName \in deleteAttempts
        /\ pendingError # "none" => runResult = pendingError

\* the OCR reported failure after the upload, and the deletion failed too
C14_Witness ==
    /\ pcRun = "failed"
    /\ pdfUrl = SasUrl
    /\ cleanupOnFailure
    /\ ~debug
    /\ ocrStatus = "Failed"
    /\ BlobName \in storedBlobs
    /\ runResult = "Exception"

\* C15: on every failure of the cleanup stage in non-debug mode the
\* extraction directory and the interim JSON directory are gone when the
\* error propagates, and so is the interim OCR EPUB in the full pipeline.
C15_FailureRemovesTempDirs ==
    (pcRun = "failed" /\ ~debug) =>
        /\ tempDir # "exists"
        /\ interimDir # "exists"
        /\ command = "convert" => interimEpub # "written"

\* C16: when no item survives cleaning, clean_epub fails with EPUBError and
\* the output path is untouched; a cleaned EPUB always has a chapter.
C16_NoChaptersNoBook ==
    /\ finalEpub \in {"cleaned", "translated"} => cleanedContent # <<>>
    /\ (CleanLoopFinished /\ pcRun # "ce_items"
            /\ \A j \in 1..Len(epubItems) : ExcludedItem(epubItems[j])) =>
          /\ runResult = "EPUBError"
          /\ pcRun = "failed"
          /\ finalEpub = finalBefore
          /\ cleanupCalls = <<>>

\* two items, a navigation file and an empty one, over an existing output
C16_Witness ==
    /\ pcRun = "failed"
    /\ runResult = "EPUBError"
    /\ epubIdx > Len(epubItems)
    /\ Len(epubItems) = 2
    /\ \A j \in 1..Len(epubItems) : ExcludedItem(epubItems[j])
    /\ finalBefore = "old"

\* C17: polling only after the submit, the interim EPUB only after OCR
\* success, cleanup calls of a pipeline run only once the interim EPUB is
\* written, translation only when asked for and after cleanup has written
\* its output.
C17_StagesInSequence ==
    [][/\ pollAttempt' > pollAttempt => submitted
       /\ (interimEpub' = "written" /\ interimEpub # "written") =>
             ocrStatus = "Succeeded" /\ pollAttempt > 0
       /\ (Len(cleanupCalls') > Len(cleanupCalls) /\ command = "convert") =>
             interimEpub = "written"
       /\ (translateEntered' /\ ~translateEntered) =>
             /\ translateTo
             /\ finalEpub = "cleaned"
             /\ pcRun = "cleanup_returned"]_vars

\* a clean run with a target language, cleaned and now at run_translate
C17_Witness ==
    /\ command = "clean"
    /\ translateEntered
    /\ translateTo
    /\ pcRun = "translating"
    /\ finalEpub = "cleaned"
    /\ cleanupCalls # <<>>

\* C18: at most 60 polls; the result is returned on Succeeded only, every
\* other end of the polling raises, and then no interim EPUB is built and
\* no cleanup call is made.
C18_PollingBounded ==
    /\ pollAttempt <= 60
    /\ pcRun = "poll" => pollAttempt < 60
    /\ pcRun \in {"received", "build"} => ocrStatus = "Succeeded"
    /\ interimEpub # "absent" => ocrStatus = "Succeeded"
    /\ ocrStatus \in {"Failed", "Unexpected", "NetworkError", "Timeout"} =>
          /\ pcRun \in {"ocr_finally", "failed"}
          /\ pendingError # "none"
          /\ interimEpub = "absent"
          /\ cleanupCalls = <<>>
    /\ ocrStatus \in {"NetworkError", "Timeout"} => pollAttempt = 60

\* the service kept answering Running: timeout after the 60th poll
C18_Witness ==
    /\ ocrStatus = "Timeout"
    /\ pollAttempt = 60
    /\ pcRun = "failed"
    /\ runResult = "TimeoutError"

RunEvents == {runLog[i] : i \in 1..Len(runLog)}
EndsWith(log, events) ==
    Len(log) >= Len(events)
    /\ SubSeq(log, Len(log) - Len(events) + 1, Len(log)) = events

\* C19: a storage handler exists and an upload is made exactly for inputs
\* that do not start with http:// or https://; a URL input is passed to the
\* OCR service unchanged and nothing is uploaded or deleted for it.
C19_UploadIffLocal ==
    /\ storageHandler => LocalInput
    /\ UrlInput =>
          /\ storedBlobs = {} /\ uploadedBlobs = {} /\ deleteAttempts = {}
          /\ pcRun # "start" => pdfUrl = inputPath
          /\ pcRun \in {"submit", "poll"} =>
                RunEvents \cap {"upload_start", "upload_done"} = {}
    /\ (LocalInput /\ (submitted \/ pcRun = "submit")) =>
          /\ storageHandler
          /\ pdfUrl = SasUrl
          /\ BlobName \in storedBlobs \cup deleteAttempts
          /\ (statusPath /\ pcRun = "submit") =>
                EndsWith(runLog, <<"upload_start", "upload_done">>)

\* a pipeline run on an https:// URL that completed
C19_Witness ==
    /\ command = "convert"
    /\ inputPath[1] = "https://"
    /\ pcRun = "done"
    /\ statusPath

RatioAtLeastThreshold(changed, total) ==
    total > 0 /\ changed * minRatio[2] >= minRatio[1] * total

\* C21: with allow_noop false and min_changed_ratio in (0, 1], a run whose
\* fraction of changed paragraphs is at least min_changed_ratio is not
\* rejected by the guard.
C21_MinimumRatioAccepted ==
    (GateEvaluated /\ ~allowNoop /\ minRatio[1] > 0
        /\ RatioAtLeastThreshold(DocChanged, DocParagraphs)) =>
        result # "TranslationError"


\* ------------------------------------------- claims on the preflight checks
WellFormedPing(response) ==
    /\ response # <<0, "none", "RequestException">>
    /\ response[1] < 400
    /\ response[2] = "well_formed"

\* C22: preflight_check makes exactly one request, carrying 'ping', the
\* target language and the region header when a region is configured; it
\* raises TranslationError on a status >= 400 or a body that is not a
\* non-empty list whose first element has a translation, and returns only
\* for a well-formed response.
C22_PingOnceAndJudge ==
    /\ Len(httpPosts) <= 1
    /\ pcPing \in {"responded", "done"} =>
          /\ Len(httpPosts) = 1
          /\ httpPosts[1].text = <<"ping">>
          /\ pingToLang # "" => httpPosts[1].to = pingToLang
          /\ httpPosts[1].region_header = azRegion
    /\ pcPing = "done" =>
          /\ pingOutcome = "returned" <=> WellFormedPing(pingResponse)
          /\ ~WellFormedPing(pingResponse) => pingOutcome = "TranslationError"

\* the services a command needs, in the order of the claim
NeedsService(service) ==
    IF service = "storage" THEN pfCommand \in {"ocr", "convert"} /\ pfLocal
    ELSE IF service = "cu" THEN pfCommand \in {"ocr", "convert"}
    ELSE IF service = "openai" THEN pfCommand \in {"clean", "convert"}
    ELSE pfCommand = "translate" \/ (pfCommand \in {"clean", "convert"} /\ pfWants)

ExpectedChecks == SelectSeq(<<"storage", "cu", "openai", "translator">>, NeedsService)

CheckedServices == [k \in 1..Len(pfChecked) |-> pfChecked[k][1]]
PfEventSet == {pfEvents[k] : k \in 1..Len(pfEvents)}

\* C23: the checks run in the order storage (local input only), OCR, cleanup
\* LLM, translator (only when wanted) and stop at the first failure;
\* preflight_start comes before every check event, the failing check writes
\* its _failed event, preflight_ok is written only when every check passed,
\* and after a failure main returns 1 without starting the stage.
C23_PreflightOrder ==
    (~pfSkip /\ pcPf # "start") =>
        /\ Len(CheckedServices) <= Len(ExpectedChecks)
        /\ CheckedServices = SubSeq(ExpectedChecks, 1, Len(CheckedServices))
        /\ \A k \in 1..(Len(pfChecked) - 1) : pfChecked[k][2] = "ok"
        /\ pfStatus => pfEvents # <<>> /\ pfEvents[1] = "preflight_start"
        /\ "preflight_ok" \in PfEventSet =>
              /\ CheckedServices = ExpectedChecks
              /\ \A k \in 1..Len(pfChecked) : pfChecked[k][2] = "ok"
              /\ pfEvents[Len(pfEvents)] = "preflight_ok"
        /\ (pcPf \in {"passed", "stage"} /\ pfStatus) => "preflight_ok" \in PfEventSet
        /\ pcPf \in {"raised", "exit"} =>
              /\ pfChecked # <<>>
              /\ pfChecked[Len(pfChecked)][2] # "ok"
              /\ pfError # "none"
              /\ pfStatus =>
                    pfEvents[Len(pfEvents)] = pfChecked[Len(pfChecked)][1] \o "_failed"
              /\ "preflight_ok" \notin PfEventSet
              /\ ~stageStarted
        /\ pcPf = "exit" => cliReturn = "1"
        /\ stageStarted => pfError = "none" /\ cliReturn = "none"

\* convert on a local file with translation: storage, OCR and the LLM
\* answer, the translator does not; main has returned 1
C23_Witness ==
    /\ pfCommand = "convert"
    /\ pfLocal /\ pfWants /\ pfStatus
    /\ Len(pfChecked) = 4
    /\ pfChecked[4] = <<"translator", "error">>
    /\ cliReturn = "1"
    /\ ~stageStarted

\* C24: run_translate calls the translator's preflight check exactly once,
\* and when the check fails it raises EPUBError 'Translator preflight
\* failed' with no EPUB read or written and no translation request issued.
C24_TranslateStopsOnPreflight ==
    /\ rtPingCalls <= 1
    /\ pcRt # "start" => rtPingCalls = 1
    /\ (pcRt \in {"raised", "returned"} /\ ~WellFormedPing(rtResponse)) =>
          /\ rtResult = "EPUBError: Translator preflight failed"
          /\ rtEpubReads = 0
          /\ rtEpubWrites = 0
          /\ rtRequests = 0
    /\ (rtEpubReads > 0 \/ rtEpubWrites > 0 \/ rtRequests > 0) =>
          WellFormedPing(rtResponse)

\* the translator answers the preflight request with HTTP 404
C24_Witness ==
    /\ pcRt = "raised"
    /\ rtResponse[1] = 404
    /\ rtPingCalls = 1
    /\ rtResult = "EPUBError: Translator preflight failed"

\* -------------------------------------- claims on the cleaner's configuration
\* C25: with a required cleanup setting missing, construction fails with
\* LLMError, no chunk is sent and no output of uncleaned text is produced,
\* also when the configuration object is handed in.
C25_MissingSettingFailsFast ==
    (ocMissing # {} /\ pcOc # "start") =>
        /\ ocResult = "LLMError"
        /\ ocAttempts = 0
        /\ ocOutput = "none"

\* C28: the attempts made for a chunk never exceed the configured
\* runtime_cfg.max_retries; a chunk whose calls all fail is degraded after
\* exactly that many attempts, and a chunk that succeeded gets no further
\* attempt.
C28_AttemptsWithinConfigured ==
    /\ ocAttempts <= ocMaxRetries
    /\ ocEntry = "original" => ocAttempts = ocMaxRetries
    /\ ocEntry = "cleaned" => pcOc # "chunk"

\* ------------------------------------------------- claims on the status log
RECURSIVE IsSubsequence(_, _)
IsSubsequence(a, b) ==
    IF a = <<>> THEN TRUE
    ELSE IF b = <<>> THEN FALSE
    ELSE IF Head(a) = Head(b) THEN IsSubsequence(Tail(a), Tail(b))
    ELSE IsSubsequence(a, Tail(b))

\* C26: a failing write of a status event never raises and never changes
\* the stage's result or control flow: the run with the failing log takes
\* the same steps and ends as the run with the working log.
C26_LogFailureIsHarmless ==
    /\ obsResult # "StatusWriteError"
    /\ obsResult = refResult
    /\ obsSteps = lgStep
    /\ IsSubsequence(obsLog, refLog)

\* the pipeline helper fails on every write and the stage still succeeds
C26_Witness ==
    /\ lgWriter = "pipeline"
    /\ pcLog = "done"
    /\ refResult = "ok"
    /\ obsResult = "ok"
    /\ obsLog = <<>>
    /\ Len(refLog) = 6

\* ---------------------------------------------------- claims on reconstruction
\* C27: reconstructing the joined paragraphs of a reconstructed document
\* gives the same elements with the same heading/paragraph tags.
C27_ReconstructIdempotent ==
    pcRc = "twice" =>
        /\ Len(rcSecond) = Len(rcFirst)
        /\ \A k \in 1..Len(rcFirst) :
              /\ rcSecond[k][1] = rcFirst[k][1]
              /\ rcSecond[k][2] = rcFirst[k][2]

\* a heading followed by a paragraph of 100 letters without a full stop
C27_Witness ==
    /\ pcRc = "twice"
    /\ Len(rcFirst) = 2
    /\ rcFirst[1][1] = "h2"
    /\ rcFirst[2] = <<"p", <<"W">>>>
    /\ rcSecond = rcFirst

\* ------------------------------------------- claims on AzureTranslator batches
\* the number of segments in the batches before batch k
RECURSIVE BatchOffset(_, _)
BatchOffset(bs, k) == IF k <= 1 THEN 0 ELSE Len(bs[k - 1]) + BatchOffset(bs, k - 1)

\* the positions of segments that batch k carries
BatchPositions(bs, k) == (BatchOffset(bs, k) + 1)..(BatchOffset(bs, k) + Len(bs[k]))

\* translate_text returned a list
ReturnedList == pcTt = "returned" /\ ttResult # "TranslationError"

\* C29: a batch whose every attempt failed was posted max_retries times and
\* leaves its original segments at their positions of the result, every batch
\* is posted, translate_text returns a list, and those positions count as
\* unchanged in the translation stage's diff.
C29_FailedBatchKeepsOriginals ==
    (pcTt = "returned" /\ ttBatches # <<>>) =>
        /\ ReturnedList
        /\ \A k \in 1..Len(ttBatches) : ttPosts[k] >= 1
        /\ \A k \in ttFailed :
              /\ ttPosts[k] = ttMaxRetries
              /\ \A i \in BatchPositions(ttBatches, k) :
                    /\ i <= Len(ttResult)
                    /\ ttResult[i] = ttSegments[i]
                    /\ Diffs(<<ttSegments[i]>>, <<ttResult[i]>>) = 0

\* C30: translate_text returns len(segments) strings, and position i holds
\* segment i or the service's translation of segment i.
C30_ResultAligned ==
    ReturnedList =>
        /\ Len(ttResult) = Len(ttSegments)
        /\ \A i \in 1..Len(ttResult) :
              ttResult[i] \in {ttSegments[i], Strip(Translation(ttSegments[i]))}

\* ------------------------------------------------ more claims on chunk_text
\* paragraph i of the input is longer than the limit and holds a sentence
\* boundary
SplittableLongParagraph(i) ==
    /\ Len(InputParagraphs[i]) > MaxChars(maxTokens)
    /\ Len(SplitSentences(InputParagraphs[i])) >= 2

\* C31: a paragraph longer than the limit that holds a sentence boundary is
\* split at its sentences, whatever the accumulator held when it was reached:
\* no chunk is that whole paragraph.
C31_LongParagraphIsSplit ==
    (ChunkDone /\ MaxChars(maxTokens) >= 1) =>
        \A i \in 1..Len(InputParagraphs) :
            SplittableLongParagraph(i) =>
                \A k \in 1..Len(chunks) :
                    ~(/\ Len(chunks[k]) > MaxChars(maxTokens)
                      /\ chunks[k] = Strip(InputParagraphs[i]))

\* ------------------------------------------------- claims on retries and debug
\* every delay of a unit equals the one before it
SameDelays(delays) == \A j \in 1..(Len(delays) - 1) : delays[j + 1] = delays[j]

\* batch k of translate_text has left its retry loop
BatchLeft(k) == k < ttBatchIdx \/ pcTt \in {"align", "returned"}

\* chunk i of clean_chunks has left its attempt loop
ChunkLeft(i) == i < ci \/ pcClean \in {"summary", "returned"}

\* C32: the wait before a retry is the same for every retry of a cleanup
\* chunk and of a translation batch, and no wait follows the last attempt of
\* a unit.
C32_FixedRetryDelay ==
    /\ \A k \in 1..Len(ttSleeps) :
          /\ SameDelays(ttSleeps[k])
          /\ BatchLeft(k) => Len(ttSleeps[k]) = ttPosts[k] - 1
    /\ \A i \in 1..Len(sleeps) :
          /\ SameDelays(sleeps[i])
          /\ ChunkLeft(i) => Len(sleeps[i]) = Len(llmCalls[i]) - 1

\* C33: with debug artifacts enabled, every attempt made for a chunk has left
\* its request file and its response file.
C33_ArtifactsForEveryAttempt ==
    (debugOn /\ pcClean = "returned") =>
        \A i \in 1..Len(ccChunks) :
            \A a \in 1..Len(llmCalls[i]) :
                /\ <<i, a, "request">> \in artifacts
                /\ <<i, a, "response">> \in artifacts

\* ------------------------------------------------ claims on the HTML elements
\* elements holds one element per paragraph of ps, in order, a heading if
\* and only if the paragraph has fewer than 100 characters and no final "."
ClassifiedAsStated(elements, ps) ==
    /\ Len(elements) = Len(ps)
    /\ \A k \in 1..Len(ps) :
          /\ elements[k][2] = ps[k]
          /\ elements[k][1] \in {"h2", "p"}
          /\ elements[k][1] = "h2" <=>
                (TextLen(ps[k]) < 100 /\ ps[k][Len(ps[k])] # ".")

\* C34: reconstruct_html emits one element per trimmed non-empty paragraph, in
\* order, a heading iff the paragraph is shorter than 100 characters and does
\* not end with "."; blank input gives the one-paragraph placeholder; the
\* interim builder classifies every paragraph the same way.
C34_ElementPerParagraph ==
    /\ pcRc # "start" =>
          IF Strip(rcText) = <<>>
          THEN rcFirst = <<<<"p", <<"E", ".">>>>>>
          ELSE ClassifiedAsStated(rcFirst, TrimmedParagraphs(rcText))
    /\ pcBuilder = "built" =>
          ClassifiedAsStated(rcBuilt, TrimmedParagraphs(rcText))

\* a short heading and a paragraph of exactly 100 letters, in both documents
C34_Witness ==
    /\ pcRc # "start"
    /\ pcBuilder = "built"
    /\ rcBuilt = rcFirst
    /\ Len(rcFirst) = 2
    /\ rcFirst[1] = <<"h2", <<"a">>>>
    /\ rcFirst[2] = <<"p", <<"W">>>>

\* ------------------------------------------------ claims on the blob storage
\* C35: uploads of files with the same base name get blobs of their own: no
\* upload replaces a blob of the other run, and every blob a run's OCR is
\* still reading is in the container as that run uploaded it.
C35_BlobNamesUnique ==
    /\ ~shClobbered
    /\ \A h \in DOMAIN shReading :
          \A r \in shReading[h] : shStore[r[1]] = r[2]

\* the names in uploaded_blobs
TrackedNames(h) == {shTracked[h][k] : k \in 1..Len(shTracked[h])}

\* C39: uploaded_blobs holds exactly the blobs the handler uploaded and has not
\* deleted since; cleanup_all returns counts that add up to the number tracked
\* at the call and leaves the failed ones tracked; an upload_pdf that fails
\* after the blob was stored attempts to delete it.
C39_TrackedBlobsExact ==
    /\ \A h \in DOMAIN shTracked :
          TrackedNames(h) = shLive[h]
    /\ (shLast # <<>> /\ shLast.op = "cleanup_all") =>
          /\ shLast.counts[1] + shLast.counts[2] = shLast.counts[3]
          /\ shTracked[shLast.h] = shLast.failedNames
    /\ (shLast # <<>> /\ shLast.op = "upload_pdf"
            /\ shLast.outcome \in {"stored_then_raises", "sas_raises"}) =>
          shLast.deleteTried

\* ------------------------------------------------ claims on _split_paragraphs
\* the trimmed pieces of the blank-line split that are not empty, in order
TrimmedNonEmptyPieces(t) ==
    SelectSeq([k \in 1..Len(SplitBlank(t)) |-> Strip(SplitBlank(t)[k])],
              LAMBDA q : q # <<>>)

HasNonWhitespace(t) == \E k \in 1..Len(t) : t[k] \notin Whitespace

\* C38: _split_paragraphs returns the trimmed non-empty pieces of the
\* blank-line split, in order; the result is non-empty iff the text holds a
\* non-whitespace character; every paragraph is trimmed and non-empty; the
\* fallback, whenever reached, returns the empty list.
C38_SplitParagraphsIsBlankSplit ==
    pcSp = "done" =>
        /\ spParas = TrimmedNonEmptyPieces(spText)
        /\ (spParas # <<>>) <=> HasNonWhitespace(spText)
        /\ \A k \in 1..Len(spParas) :
              spParas[k] # <<>> /\ Strip(spParas[k]) = spParas[k]
        /\ spFallbackReached => (spFallback = <<>> /\ spParas = <<>>)

\* the fallback was reached on a text of several lines
C38_Witness ==
    /\ pcSp = "done"
    /\ spFallbackReached
    /\ Len(SplitLines(spText)) >= 3
    /\ \E k \in 1..Len(spText) : spText[k] = SP

\* C36: for every text and every limit N >= 1 every chunk chunk_text returns
\* holds a non-whitespace character, and the empty text gives no chunk.
C36_NoBlankChunk ==
    (ChunkDone /\ MaxChars(maxTokens) >= 1) =>
        /\ \A i \in 1..Len(chunks) : NonWs(chunks[i]) # <<>>
        /\ text = <<>> => chunks = <<>>

\* C37: a translation run over a document without eligible items writes no
\* output and does not succeed: once the items are seen it raises
\* TranslationError when allow_noop is false and EPUBError when it is true.
C37_NothingToTranslateFails ==
    (TranslateEnded /\ EligibleItems = <<>>) =>
        /\ outputEpub = outputBefore
        /\ result # "ok"
        /\ GateEvaluated =>
              result = IF allowNoop THEN "EPUBError" ELSE "TranslationError"

\* a document of a navigation file and a blank chapter, with allow_noop set
C37_Witness ==
    /\ GateEvaluated
    /\ Len(docItems) = 2
    /\ EligibleItems = <<>>
    /\ allowNoop
    /\ minRatio = <<0, 1>>
    /\ result = "EPUBError"
    /\ outputEpub = outputBefore

\* run_full_pipeline returned final_path and debug is off
SuccessfulPlainRun ==
    /\ command = "convert"
    /\ pcRun = "done"
    /\ runResult = "ok"
    /\ ~debug

\* C40: after a successful full-pipeline run without debug, the final EPUB
\* is the only file the run leaves on disk: the interim OCR EPUB, its
\* ".backup" copy, the extraction directory and the interim-JSON directory
\* are all gone
C40_OnlyFinalEpubRemains ==
    SuccessfulPlainRun =>
        /\ finalEpub = "cleaned"
        /\ interimEpub = "removed"
        /\ backupEpub = "absent"
        /\ tempDir # "exists"
        /\ interimDir # "exists"

====
